---- MODULE Spec2Model ----
(***************************************************************************)
(* dotman-cli: the diff engine (lib/diff.ts), the push and pull commands   *)
(* (cmds/push.ts, cmds/pull.ts) and the set_project operation of the three *)
(* storage clients (storage/clients/op.ts, bw.ts, cs-launch.ts).           *)
(*                                                                         *)
(* An env file is modelled by its parsed content (an EnvMap: a function    *)
(* from the keys it holds to their string values); the remote project by   *)
(* the list of secrets the vault holds for it.  One command invocation is  *)
(* one action.  Spec runs one push or pull from any env file, any vault    *)
(* and any provider; SpecDiff applies the two pure diff functions to any   *)
(* inputs.                                                                 *)
(*                                                                         *)
(* The library operations have specifications of their own: SpecName       *)
(* (validate_environment_name), SpecState (the current-environment state   *)
(* file), SpecDir (get_all_environments), SpecClient (create_storage_      *)
(* client) and SpecFs (read_env, write_env and read_env_files, one file-   *)
(* system call per step, next to a process that swaps files for symlinks). *)
(* SpecSave runs two save_current_env invocations step by step on one      *)
(* state file; SpecUse and SpecNew run the env use and env new commands;   *)
(* SpecProject runs get_project and create_project of the three clients on *)
(* the projects the provider holds, the Bitwarden get_project one request  *)
(* per step.                                                               *)
(***************************************************************************)
EXTENDS Integers, Sequences, FiniteSets, TLC

VARIABLES
  env_file,         \* parsed content of the target env file (.env or .env.<environment>)
  vault,            \* secrets the provider holds for the project: Seq of [id, title, value]
  storage_client,   \* provider chosen by create_storage_client: its `source`
  pc,               \* "ready" before the command runs, "done" after it returned
  cmd,              \* which command / function ran
  apply,            \* opts.apply of that run
  rendered,         \* what the command rendered (render_success / render_error / ...)
  calls,            \* storage-client and file-store calls the command made, in order
  diff_result,      \* the DiffResult the command computed
  set_project_arg,  \* project.secrets passed to set_project (<<>> when not called)
  env_before,       \* env_file when the command started
  vault_before,     \* vault when the command started
  client_env_keys,  \* client_env_keys used by the command / given to calculate_pull_diff
  next_uuid,        \* number of identifiers uuid() has handed out, plus one
  projects,         \* projects the provider holds: Seq of [id, name, secrets]
  input,            \* argument(s) of the library operation that runs
  result,           \* what the library operation returned
  state_file,       \* content of the current-environment state file
  dir_entries,      \* entries of the working directory: Dirent name -> kind
  files,            \* the files the env-file store can name: path -> file
  fs_calls,         \* file-system calls the env-file store made, in order
  locals            \* local variables of the env-file operation that runs

\* variables of the push / pull commands and the diff functions
cmdvars == <<env_file, vault, storage_client, apply, rendered, calls,
             diff_result, set_project_arg, env_before, vault_before,
             client_env_keys, next_uuid, projects>>

\* variables of the library operations
libvars == <<input, result, state_file, dir_entries, files, fs_calls, locals>>

vars == <<pc, cmd, cmdvars, libvars>>

----------------------------------------------------------------------------
(* Bounds and universes *)

\* number of distinct non-empty values a variable can take
MaxVal == 2

\* application variables and the one provider-configuration variable the
\* env files and vaults of the model may hold
AppKeys == {"API_KEY", "DB_URL"}
Keys == AppKeys \cup {"DOTMAN_PROJECT_NAME"}

\* iteration order of Object.entries / Map over the keys of the model
KeyOrder == <<"API_KEY", "DB_URL", "DOTMAN_PROJECT_NAME">>

\* string values; "" is the empty string
Values == {""} \cup {"v" \o ToString(i) : i \in 1..MaxVal}

\* EnvMap = Record<string, string>
EnvMap == UNION {[S -> Values] : S \in SUBSET Keys}

Providers == {"onepassword", "bitwarden", "cs_launch"}

----------------------------------------------------------------------------
(* JavaScript values *)

\* the value of a missing property / an unset optional field
undefined == "<undefined>"

\* map[k] on a plain object
Get(map, k) == IF k \in DOMAIN map THEN map[k] ELSE undefined

\* !v for v a string or undefined
Falsy(v) == v = undefined \/ v = ""

\* v || ""
OrEmpty(v) == IF Falsy(v) THEN "" ELSE v

\* Object.keys / Object.entries of a map, as a sequence of its keys
Entries(map) == SelectSeq(KeyOrder, LAMBDA k : k \in DOMAIN map)

\* Array.prototype.filter(...).length > 0 helpers
SeqToSet(s) == {s[i] : i \in DOMAIN s}

----------------------------------------------------------------------------
(* Secrets and projects *)

\* Secret = { id, title, value }
Secret(id, title, value) == [id |-> id, title |-> title, value |-> value]

\* new Map(project.secrets.map((sec) => [sec.title, sec])): the last secret
\* with a title wins
secrets_map_of(secrets) ==
  [t \in {secrets[i].title : i \in DOMAIN secrets} |->
     secrets[CHOOSE i \in DOMAIN secrets :
               /\ secrets[i].title = t
               /\ \A j \in DOMAIN secrets : secrets[j].title = t => j <= i]]

\* iteration order of that Map: titles in order of first insertion
MapKeys(secrets) ==
  LET first(i) == \A j \in 1..(i - 1) : secrets[j].title # secrets[i].title
      idx == SelectSeq([i \in 1..Len(secrets) |-> i], first)
  IN [n \in 1..Len(idx) |-> secrets[idx[n]].title]

\* Object.fromEntries(project.secrets.map((i) => [i.title, i.value]))
remote_secrets_map_of(secrets) ==
  [t \in {secrets[i].title : i \in DOMAIN secrets} |-> secrets_map_of(secrets)[t].value]

\* uuid(): the n-th identifier handed out
uuid(n) == "uuid_" \o ToString(n)

\* no library operation runs: the library variables of a command run
LibIdle ==
  /\ input = <<>>
  /\ result = <<>>
  /\ state_file = <<>>
  /\ dir_entries = <<>>
  /\ files = <<>>
  /\ fs_calls = <<>>
  /\ locals = <<>>

----------------------------------------------------------------------------
(* lib/diff.ts *)

\* DiffChange; a field the code leaves out is undefined
DiffChange(type, key, new_value, old_value) ==
  [type |-> type, key |-> key, new_value |-> new_value, old_value |-> old_value]

\* number of changes of one type
CountType(changes, type) ==
  Cardinality({i \in DOMAIN changes : changes[i].type = type})

\* DiffResult built from the changes pushed and the three counters, which the
\* code increments once per pushed change of the type
DiffResult(changes) ==
  [changes        |-> changes,
   added_count    |-> CountType(changes, "added"),
   modified_count |-> CountType(changes, "modified"),
   deleted_count  |-> CountType(changes, "deleted"),
   total_count    |-> CountType(changes, "added") + CountType(changes, "modified")
                        + CountType(changes, "deleted")]

\* body of the first loop of calculate_push_diff for one local entry
PushLocalChange(filtered_env_map, secrets_map, env_key) ==
  LET env_value == filtered_env_map[env_key] IN
  IF env_key \in DOMAIN secrets_map
    THEN IF secrets_map[env_key].value # env_value
           THEN <<DiffChange("modified", env_key, env_value, secrets_map[env_key].value)>>
           ELSE <<>>
    ELSE <<DiffChange("added", env_key, env_value, undefined)>>

\* condition of the second loop of calculate_push_diff:
\* secret_value && !filtered_env_map[secret_key], secret_value being the
\* Secret object (always truthy)
PushDeleteGuard(filtered_env_map, secret_key) ==
  Falsy(Get(filtered_env_map, secret_key))

\* body of the second loop of calculate_push_diff for one remote secret
PushRemoteChange(filtered_env_map, secrets_map, secret_key) ==
  IF PushDeleteGuard(filtered_env_map, secret_key)
    THEN <<DiffChange("deleted", secret_key, undefined, secrets_map[secret_key].value)>>
    ELSE <<>>

\* changes.push over a for-loop: pushed[i] is what iteration i pushes
RECURSIVE Loop(_)
Loop(pushed) ==
  IF pushed = <<>> THEN <<>> ELSE Head(pushed) \o Loop(Tail(pushed))

\* calculate_push_diff(filtered_env_map, secrets_map); `secrets` is the list
\* the Map was built from and gives its iteration order
calculate_push_diff(filtered_env_map, secrets) ==
  LET secrets_map == secrets_map_of(secrets)
      local(k)  == PushLocalChange(filtered_env_map, secrets_map, k)
      remote(k) == PushRemoteChange(filtered_env_map, secrets_map, k)
      env_keys == Entries(filtered_env_map)
      map_keys == MapKeys(secrets)
  IN DiffResult(Loop([i \in DOMAIN env_keys |-> local(env_keys[i])])
                  \o Loop([i \in DOMAIN map_keys |-> remote(map_keys[i])]))

\* body of the first loop of calculate_pull_diff for one remote entry
PullRemoteChange(local_env_map, remote_secrets_map, remote_key) ==
  LET remote_value == remote_secrets_map[remote_key]
      local_value  == Get(local_env_map, remote_key)
  IN IF Falsy(local_value)
       THEN <<DiffChange("added", remote_key, remote_value, undefined)>>
       ELSE IF local_value # remote_value
              THEN <<DiffChange("modified", remote_key, remote_value, local_value)>>
              ELSE <<>>

\* the pull deletion condition without the client_env_keys test
PullDeleteGuard_any(remote_secrets_map, keys, local_key) ==
  Falsy(Get(remote_secrets_map, local_key))

\* condition of the second loop of calculate_pull_diff:
\* !remote_secrets_map[local_key] && !client_env_keys.includes(local_key)
PullDeleteGuard(remote_secrets_map, keys, local_key) ==
  Falsy(Get(remote_secrets_map, local_key)) /\ local_key \notin keys

\* body of the second loop of calculate_pull_diff for one local entry
PullLocalChange(local_env_map, remote_secrets_map, keys, local_key) ==
  IF PullDeleteGuard(remote_secrets_map, keys, local_key)
    THEN <<DiffChange("deleted", local_key, undefined, local_env_map[local_key])>>
    ELSE <<>>

\* calculate_pull_diff(local_env_map, remote_secrets_map, client_env_keys)
calculate_pull_diff(local_env_map, remote_secrets_map, keys) ==
  LET remote(k) == PullRemoteChange(local_env_map, remote_secrets_map, k)
      local(k)  == PullLocalChange(local_env_map, remote_secrets_map, keys, k)
      remote_keys == Entries(remote_secrets_map)
      local_keys  == Entries(local_env_map)
  IN DiffResult(Loop([i \in DOMAIN remote_keys |-> remote(remote_keys[i])])
                  \o Loop([i \in DOMAIN local_keys |-> local(local_keys[i])]))

\* the DiffResult of a command that returned before computing a diff
NoDiff == DiffResult(<<>>)

----------------------------------------------------------------------------
(* storage clients *)

\* get_client_env_keys(): Object.keys of the provider's env-map schema
get_client_env_keys(client) ==
  CASE client = "onepassword" ->
         {"DOTMAN_PROJECT_NAME", "OP_VAULT_NAME", "OP_SERVICE_ACCOUNT_TOKEN"}
    [] client = "bitwarden" ->
         {"DOTMAN_PROJECT_NAME", "BWS_API_URL", "BWS_IDENTITY_URL",
          "BWS_ORGANIZATION_ID", "BWS_ACCESS_TOKEN"}
    [] client = "cs_launch" ->
         {"DOTMAN_PROJECT_NAME", "CS_LAUNCH_AUTH_TOKEN", "CS_LAUNCH_ORGANIZATION_UID",
          "CS_LAUNCH_PROJECT_UID", "CS_LAUNCH_API_URL"}

\* identifier the provider reports for a secret it already holds:
\* Contentstack Launch uses the key itself, the others a stored identifier
StoredId(client, title) ==
  IF client = "cs_launch" THEN title ELSE "id_" \o title

\* the secrets a vault holding the key/value pairs of `map` returns
VaultOf(client, map) ==
  LET ks == Entries(map)
  IN [i \in DOMAIN ks |-> Secret(StoredId(client, ks[i]), ks[i], map[ks[i]])]

\* get_project(environment).secrets: the provider's fields / secrets /
\* environmentVariables mapped to Secret
get_project(client, stored) ==
  [i \in DOMAIN stored |->
     Secret(IF client = "cs_launch" THEN stored[i].title ELSE stored[i].id,
            stored[i].title, stored[i].value)]

\* Array.prototype.find by title: index of the first match, 0 when none
FindByTitle(stored, title) ==
  IF \E j \in DOMAIN stored : stored[j].title = title
    THEN CHOOSE j \in DOMAIN stored :
           /\ stored[j].title = title
           /\ \A l \in DOMAIN stored : stored[l].title = title => j <= l
    ELSE 0

\* number of secrets of secrets[1..i-1] the vault does not hold yet
CreatesBefore(stored, secrets, i) ==
  Cardinality({l \in 1..(i - 1) : FindByTitle(stored, secrets[l].title) = 0})

\* OnePasswordStorageClient.set_project: the new field list handed to
\* items.put, which replaces the item's fields in one request
op_set_project(stored, secrets, n) ==
  [i \in DOMAIN secrets |->
     LET j == FindByTitle(stored, secrets[i].title) IN
     IF j # 0
       THEN Secret(stored[j].id, secrets[i].title, secrets[i].value)
       ELSE Secret(uuid(n + CreatesBefore(stored, secrets, i)),
                   secrets[i].title, secrets[i].value)]

\* ContentstackLaunchStorageClient.set_project: the environmentVariables
\* list of the single PUT request
cs_set_project(secrets) ==
  [i \in DOMAIN secrets |-> Secret(secrets[i].title, secrets[i].title, secrets[i].value)]

\* BitwardenStorageClient.set_project: one secrets().update or
\* secrets().create request per secret of the project, all issued against
\* the listing `stored`; `failed` are the requests the server rejects.
\* No request removes a secret.
bw_set_project(stored, secrets, failed) ==
  LET done == DOMAIN secrets \ failed
      updated ==
        [j \in DOMAIN stored |->
           IF \E i \in done : FindByTitle(stored, secrets[i].title) = j
             THEN LET i == CHOOSE i \in done : FindByTitle(stored, secrets[i].title) = j
                  IN Secret(stored[j].id, stored[j].title, secrets[i].value)
             ELSE stored[j]]
      creates == SelectSeq([i \in 1..Len(secrets) |-> i],
                           LAMBDA i : i \in done /\ FindByTitle(stored, secrets[i].title) = 0)
      created ==
        [c \in DOMAIN creates |->
           Secret("bw_" \o ToString(Len(stored) + c),
                  secrets[creates[c]].title, secrets[creates[c]].value)]
  IN updated \o created

\* set_project(project, environment) of the selected client.  `fail` says
\* whether the call returns an error; for Bitwarden a failing call is one
\* whose listing failed (no request sent) or one where the requests
\* `failed` were rejected.  Returns the secrets the vault holds afterwards.
set_project(client, stored, secrets, fail, failed, n) ==
  CASE client = "onepassword" ->
         IF fail THEN stored ELSE op_set_project(stored, secrets, n)
    [] client = "cs_launch" ->
         IF fail THEN stored ELSE cs_set_project(secrets)
    [] client = "bitwarden" ->
         IF fail
           THEN IF failed \cap DOMAIN secrets = {}
                  THEN stored
                  ELSE bw_set_project(stored, secrets, failed)
           ELSE bw_set_project(stored, secrets, {})

----------------------------------------------------------------------------
(* cmds/push.ts *)

\* the steps of a command that can return an error, and "none"
FailPoints == {"none", "get_current_environment", "read_env_files",
               "create_storage_client", "get_project", "commit"}

\* filtered_env_map as it would be without the client-key filter
filtered_env_map_unfiltered(environment_env_map, keys) ==
  [k \in DOMAIN environment_env_map |-> OrEmpty(environment_env_map[k])]

\* filtered_env_map: the entries of environment_env_map whose key is not a
\* client env key, each value v as v || ""
filtered_env_map_of(environment_env_map, keys) ==
  [k \in {e \in DOMAIN environment_env_map : e \notin keys} |->
     OrEmpty(environment_env_map[k])]

\* the apply loop of push_cmd over changes: `secrets` is project.secrets,
\* secrets_map holds the Secret objects fetched (a modified object is the
\* element of project.secrets with its id and title), n the next uuid
RECURSIVE PushApplyLoop(_, _, _, _)
PushApplyLoop(changes, secrets, secrets_map, n) ==
  IF changes = <<>> THEN [secrets |-> secrets, n |-> n]
  ELSE
    LET change == Head(changes)
        known  == change.key \in DOMAIN secrets_map
    IN CASE change.type = "added" ->
              PushApplyLoop(Tail(changes),
                            Append(secrets, Secret(uuid(n), change.key, OrEmpty(change.new_value))),
                            secrets_map, n + 1)
         [] change.type = "modified" ->
              PushApplyLoop(Tail(changes),
                            [i \in DOMAIN secrets |->
                               IF /\ known
                                  /\ secrets[i].id = secrets_map[change.key].id
                                  /\ secrets[i].title = change.key
                                 THEN Secret(secrets[i].id, secrets[i].title, OrEmpty(change.new_value))
                                 ELSE secrets[i]],
                            secrets_map, n)
         [] change.type = "deleted" ->
              PushApplyLoop(Tail(changes),
                            IF known
                              THEN SelectSeq(secrets, LAMBDA sec : sec.id # secrets_map[change.key].id)
                              ELSE secrets,
                            secrets_map, n)

\* the push branch as it would be if opts.apply were not consulted
PushBranch_always_apply(a, d) ==
  IF d.total_count = 0 THEN "up_to_date" ELSE "apply"

\* which branch push_cmd takes once the diff is computed
PushBranch(a, d) ==
  IF d.total_count = 0 THEN "up_to_date" ELSE IF a THEN "apply" ELSE "preview"

\* what one run of a command leaves behind
Run(r, c, d, arg, keys, file, stored, n) ==
  [rendered |-> r, calls |-> c, diff_result |-> d, set_project_arg |-> arg,
   client_env_keys |-> keys, env_file |-> file, vault |-> stored, next_uuid |-> n]

\* push_cmd with opts.apply = a; `fail` is the step that returns an error,
\* `failed` the Bitwarden requests rejected when the commit fails
push_cmd(a, fail, failed) ==
  LET environment_env_map == env_file
      keys     == get_client_env_keys(storage_client)
      filtered == filtered_env_map_of(environment_env_map, keys)
      secrets  == get_project(storage_client, vault)
      d        == calculate_push_diff(filtered, secrets)
      applied  == PushApplyLoop(d.changes, secrets, secrets_map_of(secrets), next_uuid)
      stored   == set_project(storage_client, vault, applied.secrets,
                              fail = "commit", failed, applied.n)
      Stop(r, c) == Run(r, c, NoDiff, <<>>, {}, env_file, vault, next_uuid)
  IN
  IF fail = "get_current_environment" THEN Stop("error", <<>>)
  ELSE IF fail = "read_env_files" THEN Stop("error", <<"read_env_files">>)
  ELSE IF DOMAIN environment_env_map = {}
    THEN Stop("error_no_env_vars", <<"read_env_files">>)
  ELSE IF fail = "create_storage_client"
    THEN Stop("error", <<"read_env_files", "create_storage_client">>)
  ELSE IF DOMAIN filtered = {}
    THEN Run("error_no_custom_env_vars", <<"read_env_files", "create_storage_client">>,
             NoDiff, <<>>, keys, env_file, vault, next_uuid)
  ELSE IF fail = "get_project"
    THEN Run("error", <<"read_env_files", "create_storage_client", "get_project">>,
             NoDiff, <<>>, keys, env_file, vault, next_uuid)
  ELSE
    CASE PushBranch(a, d) = "up_to_date" ->
           Run("up_to_date", <<"read_env_files", "create_storage_client", "get_project">>,
               d, <<>>, keys, env_file, vault, next_uuid)
      [] PushBranch(a, d) = "preview" ->
           Run("diff", <<"read_env_files", "create_storage_client", "get_project">>,
               d, <<>>, keys, env_file, vault, next_uuid)
      [] PushBranch(a, d) = "apply" ->
           Run(IF fail = "commit" THEN "error_set_project" ELSE "success",
               <<"read_env_files", "create_storage_client", "get_project", "set_project">>,
               d, applied.secrets, keys, env_file, stored, applied.n)

----------------------------------------------------------------------------
(* cmds/pull.ts *)

\* secrets_map_client_env_keys as it would be if no remote title were
\* recognised as a client env key
secrets_map_client_env_keys_none(remote_secrets_map, keys) == {}

\* secrets_map_client_env_keys: the remote titles that are client env keys
secrets_map_client_env_keys(remote_secrets_map, keys) ==
  {k \in DOMAIN remote_secrets_map : k \in keys}

\* the apply loop of pull_cmd over changes, on environment_env_map
RECURSIVE PullApplyLoop(_, _)
PullApplyLoop(changes, environment_env_map) ==
  IF changes = <<>> THEN environment_env_map
  ELSE
    LET change == Head(changes) IN
    IF change.type \in {"added", "modified"}
      THEN PullApplyLoop(Tail(changes),
             [k \in DOMAIN environment_env_map \cup {change.key} |->
                IF k = change.key THEN OrEmpty(change.new_value)
                                  ELSE environment_env_map[k]])
      ELSE PullApplyLoop(Tail(changes),
             [k \in DOMAIN environment_env_map \ {change.key} |-> environment_env_map[k]])

\* which branch pull_cmd takes once the diff is computed
PullBranch(a, d) ==
  IF d.total_count = 0 THEN "up_to_date" ELSE IF a THEN "apply" ELSE "preview"

\* pull_cmd as it would be without the test for a project with no secrets
pull_cmd_no_secrets_unchecked(a, fail) ==
  LET environment_env_map == env_file
      keys     == get_client_env_keys(storage_client)
      secrets  == get_project(storage_client, vault)
      remote   == remote_secrets_map_of(secrets)
      d        == calculate_pull_diff(environment_env_map, remote, keys)
      applied  == PullApplyLoop(d.changes, environment_env_map)
      Stop(r, c) == Run(r, c, NoDiff, <<>>, {}, env_file, vault, next_uuid)
      fetched  == <<"read_env_files", "create_storage_client", "get_project">>
  IN
  IF fail = "get_current_environment" THEN Stop("error", <<>>)
  ELSE IF fail = "read_env_files" THEN Stop("error", <<"read_env_files">>)
  ELSE IF fail = "create_storage_client"
    THEN Stop("error", <<"read_env_files", "create_storage_client">>)
  ELSE IF fail = "get_project" THEN Stop("error", fetched)
  ELSE IF secrets_map_client_env_keys(remote, keys) # {}
    THEN Run("warning_client_keys", fetched, NoDiff, <<>>, keys, env_file, vault, next_uuid)
  ELSE
    CASE PullBranch(a, d) = "up_to_date" ->
           Run("up_to_date", fetched, d, <<>>, keys, env_file, vault, next_uuid)
      [] PullBranch(a, d) = "preview" ->
           Run("diff", fetched, d, <<>>, keys, env_file, vault, next_uuid)
      [] PullBranch(a, d) = "apply" ->
           Run(IF fail = "commit" THEN "error_write_failed" ELSE "success",
               Append(fetched, "write_env"), d, <<>>, keys,
               IF fail = "commit" THEN env_file ELSE applied, vault, next_uuid)

\* pull_cmd with opts.apply = a; `fail` is the step that returns an error
\* (a failing write_env leaves the file as it was)
pull_cmd(a, fail) ==
  LET environment_env_map == env_file
      keys     == get_client_env_keys(storage_client)
      secrets  == get_project(storage_client, vault)
      remote   == remote_secrets_map_of(secrets)
      d        == calculate_pull_diff(environment_env_map, remote, keys)
      applied  == PullApplyLoop(d.changes, environment_env_map)
      Stop(r, c) == Run(r, c, NoDiff, <<>>, {}, env_file, vault, next_uuid)
      fetched  == <<"read_env_files", "create_storage_client", "get_project">>
  IN
  IF fail = "get_current_environment" THEN Stop("error", <<>>)
  ELSE IF fail = "read_env_files" THEN Stop("error", <<"read_env_files">>)
  ELSE IF fail = "create_storage_client"
    THEN Stop("error", <<"read_env_files", "create_storage_client">>)
  ELSE IF fail = "get_project" THEN Stop("error", fetched)
  ELSE IF secrets_map_client_env_keys(remote, keys) # {}
    THEN Run("warning_client_keys", fetched, NoDiff, <<>>, keys, env_file, vault, next_uuid)
  ELSE IF DOMAIN remote = {}
    THEN Run("error_no_secrets", fetched, NoDiff, <<>>, keys, env_file, vault, next_uuid)
  ELSE
    CASE PullBranch(a, d) = "up_to_date" ->
           Run("up_to_date", fetched, d, <<>>, keys, env_file, vault, next_uuid)
      [] PullBranch(a, d) = "preview" ->
           Run("diff", fetched, d, <<>>, keys, env_file, vault, next_uuid)
      [] PullBranch(a, d) = "apply" ->
           Run(IF fail = "commit" THEN "error_write_failed" ELSE "success",
               Append(fetched, "write_env"), d, <<>>, keys,
               IF fail = "commit" THEN env_file ELSE applied, vault, next_uuid)

----------------------------------------------------------------------------
(* Specification: one push or pull from any env file, vault and provider *)

Init ==
  /\ env_file \in EnvMap
  /\ storage_client \in Providers
  /\ \E m \in EnvMap : vault = VaultOf(storage_client, m)
  /\ pc = "ready"
  /\ cmd = "none"
  /\ apply = FALSE
  /\ rendered = "none"
  /\ calls = <<>>
  /\ diff_result = NoDiff
  /\ set_project_arg = <<>>
  /\ env_before = env_file
  /\ vault_before = vault
  /\ client_env_keys = {}
  /\ next_uuid = 1
  /\ projects = <<>>
  /\ LibIdle

\* the state a finished run leaves
Finish(name, a, run) ==
  /\ pc' = "done"
  /\ cmd' = name
  /\ apply' = a
  /\ rendered' = run.rendered
  /\ calls' = run.calls
  /\ diff_result' = run.diff_result
  /\ set_project_arg' = run.set_project_arg
  /\ client_env_keys' = run.client_env_keys
  /\ env_file' = run.env_file
  /\ vault' = run.vault
  /\ next_uuid' = run.next_uuid
  /\ UNCHANGED projects
  /\ env_before' = env_file
  /\ vault_before' = vault
  /\ UNCHANGED storage_client
  /\ UNCHANGED libvars

PushCmd ==
  /\ pc = "ready"
  /\ \E a \in BOOLEAN, fail \in FailPoints, failed \in SUBSET (1..Cardinality(Keys)) :
       Finish("push", a, push_cmd(a, fail, failed))

PullCmd ==
  /\ pc = "ready"
  /\ \E a \in BOOLEAN, fail \in FailPoints :
       Finish("pull", a, pull_cmd(a, fail))

Next == PushCmd \/ PullCmd

Spec == Init /\ [][Next]_vars

----------------------------------------------------------------------------
(* Specification: the two diff functions applied to any inputs *)

InitDiff ==
  /\ env_file \in EnvMap
  /\ storage_client = "onepassword"
  /\ \E m \in EnvMap : vault = VaultOf(storage_client, m)
  /\ client_env_keys \in SUBSET Keys
  /\ pc = "ready"
  /\ cmd = "none"
  /\ apply = FALSE
  /\ rendered = "none"
  /\ calls = <<>>
  /\ diff_result = NoDiff
  /\ set_project_arg = <<>>
  /\ env_before = env_file
  /\ vault_before = vault
  /\ next_uuid = 1
  /\ projects = <<>>
  /\ LibIdle

\* calculate_push_diff(env_file, new Map(vault by title))
CalculatePushDiff ==
  /\ pc = "ready"
  /\ pc' = "done"
  /\ cmd' = "calculate_push_diff"
  /\ diff_result' = calculate_push_diff(env_file, vault)
  /\ UNCHANGED <<env_file, vault, storage_client, apply, rendered, calls,
                 set_project_arg, env_before, vault_before, client_env_keys, next_uuid,
                 projects>>
  /\ UNCHANGED libvars

\* calculate_pull_diff(env_file, vault as a title -> value object, client_env_keys)
CalculatePullDiff ==
  /\ pc = "ready"
  /\ pc' = "done"
  /\ cmd' = "calculate_pull_diff"
  /\ diff_result' = calculate_pull_diff(env_file, remote_secrets_map_of(vault), client_env_keys)
  /\ UNCHANGED <<env_file, vault, storage_client, apply, rendered, calls,
                 set_project_arg, env_before, vault_before, client_env_keys, next_uuid,
                 projects>>
  /\ UNCHANGED libvars

NextDiff == CalculatePushDiff \/ CalculatePullDiff

SpecDiff == InitDiff /\ [][NextDiff]_vars

----------------------------------------------------------------------------
(* Properties *)

\* the changes of the computed diff that name key k, and those of one type
ChangesFor(k) == {i \in DOMAIN diff_result.changes : diff_result.changes[i].key = k}
ChangesOfType(k, type) == {i \in ChangesFor(k) : diff_result.changes[i].type = type}

\* the remote key/value object the command or function compared against
RemoteBefore == remote_secrets_map_of(get_project(storage_client, vault_before))

\* C1: push idempotence - after push --apply has applied every change of
\* its diff to the secret list, recomputing calculate_push_diff for the same
\* local map against that list yields total_count = 0
C1_PushIdempotent ==
  (cmd = "push" /\ "set_project" \in SeqToSet(calls)) =>
    calculate_push_diff(filtered_env_map_of(env_before, client_env_keys),
                        set_project_arg).total_count = 0

\* C2: pull idempotence - after pull --apply has applied every change of its
\* diff to the local map, recomputing calculate_pull_diff against the same
\* remote map yields an empty DiffResult
C2_PullIdempotent ==
  (cmd = "pull" /\ rendered = "success") =>
    calculate_pull_diff(env_file, RemoteBefore, client_env_keys) = NoDiff

\* C3: partition invariant - in the DiffResult of calculate_push_diff and of
\* calculate_pull_diff no key appears in more than one change
C3_Partition ==
  (cmd \in {"calculate_push_diff", "calculate_pull_diff"}) =>
    \A k \in Keys : Cardinality(ChangesFor(k)) <= 1

\* C4: client keys are never sent to the vault - push produces no added or
\* modified change for a client env key, and every secret titled with a
\* client key in the project passed to set_project is a fetched secret,
\* unchanged (neither created nor updated by the push)
C4_ClientKeysNotPushed ==
  cmd = "push" =>
    /\ \A i \in DOMAIN diff_result.changes :
         diff_result.changes[i].type \in {"added", "modified"} =>
           diff_result.changes[i].key \notin get_client_env_keys(storage_client)
    /\ \A i \in DOMAIN set_project_arg :
         set_project_arg[i].title \in get_client_env_keys(storage_client) =>
           set_project_arg[i] \in SeqToSet(get_project(storage_client, vault_before))

\* C4 witness: a push --apply of a file holding a client key committed
\* added or modified secrets
C4_Witness ==
  /\ cmd = "push" /\ apply /\ rendered = "success"
  /\ "DOTMAN_PROJECT_NAME" \in DOMAIN env_before
  /\ diff_result.added_count > 0
  /\ diff_result.modified_count > 0

\* C5: pull never wipes or alters client configuration - after pull, every
\* client env key the target env file held before the command is still in
\* the file with the same value
C5_PullKeepsClientKeys ==
  cmd = "pull" =>
    \A k \in get_client_env_keys(storage_client) \cap DOMAIN env_before :
      k \in DOMAIN env_file /\ env_file[k] = env_before[k]

\* C5 witness: a pull --apply rewrote a file that holds a client key the
\* remote project does not hold
C5_Witness ==
  /\ cmd = "pull" /\ apply /\ rendered = "success"
  /\ "DOTMAN_PROJECT_NAME" \in DOMAIN env_before
  /\ env_file # env_before
  /\ diff_result.deleted_count > 0

\* C5 witness for the remote project that holds a client key: pull --apply
\* stopped with the warning
C5_WitnessRemoteClientKey ==
  /\ cmd = "pull" /\ apply /\ rendered = "warning_client_keys"
  /\ "DOTMAN_PROJECT_NAME" \in DOMAIN env_before
  /\ "DOTMAN_PROJECT_NAME" \in DOMAIN RemoteBefore
  /\ RemoteBefore["DOTMAN_PROJECT_NAME"] # env_before["DOTMAN_PROJECT_NAME"]

\* C6: calculate_pull_diff never returns a deleted change whose key is a
\* member of client_env_keys
C6_NoClientKeyDeleted ==
  cmd = "calculate_pull_diff" =>
    \A i \in DOMAIN diff_result.changes :
      diff_result.changes[i].type = "deleted" =>
        diff_result.changes[i].key \notin client_env_keys

\* C6 witness: a local-only client key was passed over while another
\* local-only key was reported deleted
C6_Witness ==
  /\ cmd = "calculate_pull_diff"
  /\ \E k \in client_env_keys : k \in DOMAIN env_file /\ k \notin DOMAIN RemoteBefore
  /\ diff_result.deleted_count > 0

\* C7: push deletion rule - calculate_push_diff reports K deleted iff K is a
\* remote title, absent from the local map, with a non-empty remote value;
\* a key present locally with value "" is never reported deleted
C7_PushDeletionRule ==
  cmd = "calculate_push_diff" =>
    \A k \in Keys :
      /\ (ChangesOfType(k, "deleted") # {}) <=>
           (k \in DOMAIN RemoteBefore /\ k \notin DOMAIN env_file /\ RemoteBefore[k] # "")
      /\ (k \in DOMAIN env_file /\ env_file[k] = "") => ChangesOfType(k, "deleted") = {}

\* C8: calculate_pull_diff treats "" as a present key on both sides - local
\* "" against a different remote value is exactly one modified change with
\* old_value "" and no added change; remote "" against a non-empty local
\* value is exactly one modified change with new_value "" and no deleted
\* change
C8_PullEmptyIsPresent ==
  cmd = "calculate_pull_diff" =>
    \A k \in DOMAIN env_file \cap DOMAIN RemoteBefore :
      /\ (env_file[k] = "" /\ RemoteBefore[k] # "") =>
           /\ Cardinality(ChangesOfType(k, "modified")) = 1
           /\ \A i \in ChangesOfType(k, "modified") : diff_result.changes[i].old_value = ""
           /\ ChangesOfType(k, "added") = {}
      /\ (RemoteBefore[k] = "" /\ env_file[k] # "") =>
           /\ Cardinality(ChangesOfType(k, "modified")) = 1
           /\ \A i \in ChangesOfType(k, "modified") : diff_result.changes[i].new_value = ""
           /\ ChangesOfType(k, "deleted") = {}

C10_AllOrNothing ==
  (cmd = "push" /\ "set_project" \in SeqToSet(calls)) =>
    /\ Cardinality({i \in DOMAIN calls : calls[i] = "set_project"}) = 1
    /\ rendered = "error_set_project" => vault = vault_before

----------------------------------------------------------------------------
(* Results of the library operations (neverthrow Result / ResultAsync).      *)
(* A promise that rejects, or a synchronous throw, is the third outcome.    *)

ok(value) == [kind |-> "ok", value |-> value]

err(error) == [kind |-> "err", error |-> error]

rejected(error) == [kind |-> "rejected", error |-> error]

\* the old variables of the commands, while a library operation runs
CmdIdle ==
  /\ env_file = <<>>
  /\ vault = <<>>
  /\ storage_client = undefined
  /\ apply = FALSE
  /\ rendered = <<>>
  /\ calls = <<>>
  /\ diff_result = <<>>
  /\ set_project_arg = <<>>
  /\ env_before = <<>>
  /\ vault_before = <<>>
  /\ client_env_keys = {}
  /\ next_uuid = 1
  /\ projects = <<>>

----------------------------------------------------------------------------
(* lib/environment.ts: validate_environment_name.  A name is the sequence   *)
(* of its characters.                                                       *)

\* longest name the specification draws character by character
MaxNameLen == 3

\* const invalid_chars, in the order of the array literal
invalid_chars == <<"/", "\\", "?", "*", ":", "|", "<", ">", "\"">>

\* the characters names are drawn from: the forbidden ones, a blank, the
\* two characters of the separator and of "..", and a letter
Chars == SeqToSet(invalid_chars) \cup {" ", "_", ".", "a"}

\* constants: project_environment_separator = "__"
project_environment_separator == <<"_", "_">>

master == <<"m", "a", "s", "t", "e", "r">>

dev == <<"d", "e", "v">>

\* all sequences over S of length at most n
SeqsUpTo(S, n) == UNION {[1..k -> S] : k \in 0..n}

\* the names given to validate_environment_name: every short string over
\* Chars, and the reserved name, bare and padded with blanks
Names == SeqsUpTo(Chars, MaxNameLen) \cup {master, <<" ">> \o master \o <<" ">>}

RECURSIVE trimStart(_)
trimStart(s) == IF s # <<>> /\ Head(s) = " " THEN trimStart(Tail(s)) ELSE s

RECURSIVE trimEnd(_)
trimEnd(s) ==
  IF s # <<>> /\ s[Len(s)] = " " THEN trimEnd(SubSeq(s, 1, Len(s) - 1)) ELSE s

\* String.prototype.trim
trim(s) == trimEnd(trimStart(s))

\* String.prototype.includes
includes(s, sub) ==
  \E i \in 1..(Len(s) - Len(sub) + 1) : SubSeq(s, i, i + Len(sub) - 1) = sub

\* Array.prototype.filter over a sequence: the elements in S, in order
RECURSIVE filter(_, _)
filter(seq, S) ==
  IF seq = <<>> THEN <<>>
  ELSE IF Head(seq) \in S THEN <<Head(seq)>> \o filter(Tail(seq), S)
  ELSE filter(Tail(seq), S)

\* the separator test comes after the forbidden characters
validate_environment_name_chars_first(environment) ==
  LET trimmed == trim(environment)
      found_invalid_chars == filter(invalid_chars, SeqToSet(trimmed))
  IN  IF Len(trimmed) = 0 THEN err([message |-> "name_empty"])
      ELSE IF Len(found_invalid_chars) > 0
        THEN err([message |-> "name_invalid_chars", chars |-> found_invalid_chars])
      ELSE IF includes(trimmed, project_environment_separator)
        THEN err([message |-> "name_contains_separator"])
      ELSE IF includes(trimmed, <<".", ".">>)
        THEN err([message |-> "name_path_traversal"])
      ELSE ok(trimmed)

validate_environment_name(environment) ==
  LET trimmed == trim(environment)
      found_invalid_chars == filter(invalid_chars, SeqToSet(trimmed))
  IN  IF Len(trimmed) = 0 THEN err([message |-> "name_empty"])
      ELSE IF includes(trimmed, project_environment_separator)
        THEN err([message |-> "name_contains_separator"])
      ELSE IF Len(found_invalid_chars) > 0
        THEN err([message |-> "name_invalid_chars", chars |-> found_invalid_chars])
      ELSE IF includes(trimmed, <<".", ".">>)
        THEN err([message |-> "name_path_traversal"])
      ELSE ok(trimmed)

InitName ==
  /\ pc = "start"
  /\ cmd = ""
  /\ CmdIdle
  /\ input \in Names
  /\ result = <<>>
  /\ state_file = <<>>
  /\ dir_entries = <<>>
  /\ files = <<>>
  /\ fs_calls = <<>>
  /\ locals = <<>>

ValidateEnvironmentName ==
  /\ pc = "start"
  /\ pc' = "done"
  /\ cmd' = "validate_environment_name"
  /\ result' = validate_environment_name(input)
  /\ UNCHANGED <<input, state_file, dir_entries, files, fs_calls, locals>>
  /\ UNCHANGED cmdvars

NextName == ValidateEnvironmentName

SpecName == InitName /\ [][NextName]_vars

----------------------------------------------------------------------------
(* C17 *)

\* s = x \o sub \o y for some x and y
Occurs(sub, s) ==
  \E n \in 0..Len(s) :
    /\ n + Len(sub) <= Len(s)
    /\ \A j \in 1..Len(sub) : s[n + j] = sub[j]

\* the part of s between its first and its last character that is no blank
Trimmed(s) ==
  LET solid == {i \in 1..Len(s) : s[i] # " "}
  IN  IF solid = {} THEN <<>>
      ELSE [i \in 1..(1 + (CHOOSE hi \in solid : \A j \in solid : j <= hi)
                        - (CHOOSE lo \in solid : \A j \in solid : lo <= j))
             |-> s[i - 1 + (CHOOSE lo \in solid : \A j \in solid : lo <= j)]]

Forbidden == {"/", "\\", "?", "*", ":", "|", "<", ">", "\""}

----------------------------------------------------------------------------
(* lib/environment.ts: the state file current-environment.json, a JSON      *)
(* object from absolute directory to environment name.                      *)

\* process.cwd()
cwd == "/home/proj"

\* directories that are keys of the state file
Dirs == {cwd, "/srv/a", "/srv/b"}

\* JSON values
JString(s) == [type |-> "string", str |-> s]

JNumber == [type |-> "number"]

JNull == [type |-> "null"]

JArray == [type |-> "array"]

JObject(entries) == [type |-> "object", entries |-> entries]

\* what an entry of the state file can hold: a name, the empty string, or
\* a value that is no string
EntryValues == {JString(master), JString(dev), JString(<<>>), JNumber, JNull}

\* every content the state file can have: no file, text that is no JSON,
\* JSON that is no object (null, a number, an empty array), an object
StateFiles ==
  {[kind |-> "missing"], [kind |-> "text"]}
    \cup {[kind |-> "json", value |-> v] : v \in {JNull, JNumber, JArray}}
    \cup {[kind |-> "json", value |-> JObject(f)] :
            f \in UNION {[D -> EntryValues] : D \in SUBSET Dirs}}

\* the name of the base env file as a Dirent name
dot_env == <<".", "e", "n", "v">>

\* where a file-system call of the state-file operations can fail
StateFailPoints == {"none", "mkdir", "read", "write_reset", "write"}

\* names given to save_current_env
SaveNames == {dev, <<" ">> \o dev \o <<" ">>, master, <<>>, <<"_", "_">>}

\* { ...json }: the own enumerable properties of the parsed value
spread(json) == IF json.type = "object" THEN json.entries ELSE <<>>

\* the entry of the other directories is dropped
updated_json_cwd_only(json, environment) ==
  JObject([d \in {cwd} |-> JString(environment)])

\* const updated = { ...json, [cwd]: environment }
updated_json(json, environment) ==
  JObject([d \in DOMAIN spread(json) \cup {cwd} |->
             IF d = cwd THEN JString(environment) ELSE spread(json)[d]])

\* save_current_env as it would be if a state file that is missing or does
\* not parse were an error
save_current_env_no_heal(_environment, file, entries, fail) ==
  LET validated_environment == validate_environment_name(_environment)
      environment == validated_environment.value
      empty == [kind |-> "json", value |-> JObject(<<>>)]
      \* the file after the read and parse steps, which reset it to "{}"
      reset == IF file.kind = "json" THEN file ELSE empty
      json == reset.value
      read == IF file.kind = "json" THEN <<"mkdir", "access", "readFile">>
              ELSE <<"mkdir", "access", "readFile", "writeFile_reset">>
  IN  IF validated_environment.kind = "err"
        THEN [result |-> validated_environment, state_file |-> file, calls |-> <<>>]
      ELSE IF dot_env \notin DOMAIN entries
        THEN [result |-> err([message |-> "not_valid_project"]), state_file |-> file,
              calls |-> <<"mkdir", "access">>]
      ELSE IF fail = "mkdir"
        THEN [result |-> err([message |-> "mkdir"]), state_file |-> file,
              calls |-> <<"mkdir", "access">>]
      ELSE IF fail = "read"
        THEN [result |-> err([message |-> "readFile"]), state_file |-> file,
              calls |-> <<"mkdir", "access", "readFile">>]
      ELSE IF file.kind # "json"
        THEN [result |-> err([message |-> "writeFile"]), state_file |-> file,
              calls |-> read]
      ELSE IF fail = "write"
        THEN [result |-> err([message |-> "writeFile"]), state_file |-> reset,
              calls |-> Append(read, "writeFile")]
      ELSE [result |-> ok(undefined),
            state_file |-> [kind |-> "json", value |-> updated_json(json, environment)],
            calls |-> Append(read, "writeFile")]

\* save_current_env(_environment): the result, the state file it leaves
\* and the file-system calls it made
save_current_env(_environment, file, entries, fail) ==
  LET validated_environment == validate_environment_name(_environment)
      environment == validated_environment.value
      empty == [kind |-> "json", value |-> JObject(<<>>)]
      \* the file after the read and parse steps, which reset it to "{}"
      reset == IF file.kind = "json" THEN file ELSE empty
      json == reset.value
      read == IF file.kind = "json" THEN <<"mkdir", "access", "readFile">>
              ELSE <<"mkdir", "access", "readFile", "writeFile_reset">>
  IN  IF validated_environment.kind = "err"
        THEN [result |-> validated_environment, state_file |-> file, calls |-> <<>>]
      ELSE IF dot_env \notin DOMAIN entries
        THEN [result |-> err([message |-> "not_valid_project"]), state_file |-> file,
              calls |-> <<"mkdir", "access">>]
      ELSE IF fail = "mkdir"
        THEN [result |-> err([message |-> "mkdir"]), state_file |-> file,
              calls |-> <<"mkdir", "access">>]
      ELSE IF fail = "read"
        THEN [result |-> err([message |-> "readFile"]), state_file |-> file,
              calls |-> <<"mkdir", "access", "readFile">>]
      ELSE IF file.kind # "json" /\ fail = "write_reset"
        THEN [result |-> err([message |-> "writeFile"]), state_file |-> file,
              calls |-> read]
      ELSE IF fail = "write"
        THEN [result |-> err([message |-> "writeFile"]), state_file |-> reset,
              calls |-> Append(read, "writeFile")]
      ELSE [result |-> ok(undefined),
            state_file |-> [kind |-> "json", value |-> updated_json(json, environment)],
            calls |-> Append(read, "writeFile")]

\* get_current_environment()
get_current_environment(file, fail) ==
  IF fail = "mkdir" THEN err([message |-> "mkdir"])
  ELSE IF fail = "read" THEN err([message |-> "failed_to_read_state"])
  ELSE IF file.kind = "missing" THEN ok(JString(master))
  ELSE IF file.kind = "text" THEN ok(JString(master))
  ELSE LET parsed_value == file.value
       IN  IF parsed_value.type = "null"
             THEN rejected([message |-> "TypeError: Object.hasOwn(null)"])
           ELSE IF ~(parsed_value.type = "object" /\ cwd \in DOMAIN parsed_value.entries)
             THEN ok(JString(master))
           ELSE ok(parsed_value.entries[cwd])

InitState ==
  /\ pc = "start"
  /\ cmd = ""
  /\ CmdIdle
  /\ input = <<>>
  /\ result = <<>>
  /\ state_file \in StateFiles
  /\ dir_entries \in {<<>>, [n \in {dot_env} |-> "file"]}
  /\ files = <<>>
  /\ fs_calls = <<>>
  /\ locals = <<>>

SaveCurrentEnv ==
  /\ pc = "start"
  /\ \E _environment \in SaveNames, fail \in StateFailPoints :
       LET r == save_current_env(_environment, state_file, dir_entries, fail)
       IN  /\ input' = [environment |-> _environment, fail |-> fail]
           /\ result' = r.result
           /\ state_file' = r.state_file
           /\ fs_calls' = r.calls
  /\ pc' = "done"
  /\ cmd' = "save_current_env"
  /\ UNCHANGED <<dir_entries, files, locals>>
  /\ UNCHANGED cmdvars

GetCurrentEnvironment ==
  /\ pc = "start"
  /\ \E fail \in {"none", "mkdir", "read"} :
       /\ input' = [fail |-> fail]
       /\ result' = get_current_environment(state_file, fail)
  /\ pc' = "done"
  /\ cmd' = "get_current_environment"
  /\ UNCHANGED <<state_file, dir_entries, files, fs_calls, locals>>
  /\ UNCHANGED cmdvars

NextState == SaveCurrentEnv \/ GetCurrentEnvironment

SpecState == InitState /\ [][NextState]_vars

----------------------------------------------------------------------------
(* C11, C12, C13 *)

\* C11: when save_current_env(n) returns ok on a state file that held a JSON
\* object D, the state file holds trim(n) for the working directory, D[d]
\* for every other key d of D, and no other key.
C11_SaveFrame ==
  [][(/\ cmd' = "save_current_env"
      /\ result'.kind = "ok"
      /\ state_file.kind = "json"
      /\ state_file.value.type = "object")
     => LET D == state_file.value.entries
            after == state_file'.value.entries
        IN  /\ state_file'.kind = "json"
            /\ state_file'.value.type = "object"
            /\ DOMAIN after = DOMAIN D \cup {cwd}
            /\ after[cwd] = JString(Trimmed(input'.environment))
            /\ \A d \in DOMAIN D \ {cwd} : after[d] = D[d]]_vars

\* " dev " was saved next to the entries of two other directories
C11_Witness ==
  /\ cmd = "save_current_env"
  /\ result.kind = "ok"
  /\ input.environment = <<" ">> \o dev \o <<" ">>
  /\ state_file.kind = "json"
  /\ DOMAIN state_file.value.entries = Dirs
  /\ state_file.value.entries[cwd] = JString(dev)
  /\ state_file.value.entries["/srv/a"] = JNumber
  /\ state_file.value.entries["/srv/b"] = JString(master)

\* the state file holds a name for the working directory
UsableEntry(file) ==
  /\ file.kind = "json"
  /\ file.value.type = "object"
  /\ cwd \in DOMAIN file.value.entries
  /\ file.value.entries[cwd].type = "string"
  /\ file.value.entries[cwd].str # <<>>

\* C12: get_current_environment returns an error only when an I/O call
\* other than a read of a missing file fails; otherwise it returns the
\* stored name when the state file is an object with a non-empty string for
\* the working directory, and ok("master") in every other case.
C12_MasterFallback ==
  cmd = "get_current_environment" =>
    IF input.fail # "none" THEN result.kind = "err"
    ELSE IF UsableEntry(state_file)
      THEN result = ok(state_file.value.entries[cwd])
    ELSE result = ok(JString(master))

\* C13: get_current_environment and save_current_env finish with ok or with
\* an error value, for every content of the state file; neither throws nor
\* yields a rejected promise.
C13_TypedResultsOnly ==
  (pc = "done" /\ cmd \in {"get_current_environment", "save_current_env"})
    => result.kind \in {"ok", "err"}

----------------------------------------------------------------------------
(* lib/environment.ts: get_all_environments.  The working directory is a    *)
(* map from Dirent name to kind.                                            *)

\* ".env." + suffix
EnvFileOf(suffix) == dot_env \o <<".">> \o suffix

\* the entries a working directory is drawn from, in readdir order: env
\* files of valid names, of the reserved name, of padded names, of an empty
\* and of an invalid suffix, and two names that are no env files
DirOrder ==
  << dot_env,
     EnvFileOf(<<>>),
     EnvFileOf(master),
     EnvFileOf(dev),
     EnvFileOf(<<"a">>),
     EnvFileOf(<<" ">> \o dev),
     EnvFileOf(<<" ">> \o master),
     EnvFileOf(<<"_", "_">>),
     dot_env \o <<"r", "c">>,
     <<"s", "r", "c">> >>

\* Dirent kinds: isFile() is true of "file" only
DirentKinds == {"file", "dir"}

\* String.prototype.startsWith
startsWith(s, prefix) ==
  Len(s) >= Len(prefix) /\ SubSeq(s, 1, Len(prefix)) = prefix

\* String.prototype.slice(n)
slice(s, n) == SubSeq(s, n + 1, Len(s))

\* order of the characters under localeCompare: blank and punctuation
\* before the letters
Collation ==
  <<" ", "_", ".", "a", "c", "d", "e", "m", "n", "r", "s", "t", "v">>

CharRank(c) == CHOOSE i \in DOMAIN Collation : Collation[i] = c

\* String.prototype.localeCompare: negative, zero or positive
RECURSIVE localeCompare(_, _)
localeCompare(a, b) ==
  IF a = <<>> /\ b = <<>> THEN 0
  ELSE IF a = <<>> THEN -1
  ELSE IF b = <<>> THEN 1
  ELSE IF Head(a) # Head(b) THEN CharRank(Head(a)) - CharRank(Head(b))
  ELSE localeCompare(Tail(a), Tail(b))

\* the comparator given to sort
compare(a, b) ==
  IF a = master THEN -1
  ELSE IF b = master THEN 1
  ELSE localeCompare(a, b)

\* x placed before the first element it sorts below
RECURSIVE insert(_, _)
insert(x, sorted) ==
  IF sorted = <<>> THEN <<x>>
  ELSE IF compare(x, Head(sorted)) < 0 THEN <<x>> \o sorted
  ELSE <<Head(sorted)>> \o insert(x, Tail(sorted))

\* Array.prototype.sort with the comparator
RECURSIVE sort(_)
sort(seq) ==
  IF seq = <<>> THEN <<>>
  ELSE insert(seq[Len(seq)], sort(SubSeq(seq, 1, Len(seq) - 1)))

\* the callback of .map: the environment a file name stands for
env_name_of(name) ==
  LET env_name == slice(name, 5)
  IN  IF name = dot_env THEN ok(master)
      ELSE IF Len(env_name) = 0 THEN err([message |-> "name_empty"])
      ELSE IF env_name = master THEN err([message |-> "name_master_reserved"])
      ELSE validate_environment_name(env_name)

\* files.filter(...).map(...).filter(isOk).map(value) over the listing
RECURSIVE env_names(_, _)
env_names(listing, entries) ==
  IF listing = <<>> THEN <<>>
  ELSE LET name == Head(listing)
           rest == env_names(Tail(listing), entries)
       IN  IF /\ name \in DOMAIN entries
              /\ entries[name] = "file"
              /\ (name = dot_env \/ startsWith(name, dot_env \o <<".">>))
              /\ env_name_of(name).kind = "ok"
             THEN <<env_name_of(name).value>> \o rest
           ELSE rest

\* get_all_environments()
get_all_environments(entries, fail) ==
  IF fail = "readdir"
    THEN err([message |-> "failed_to_get_all"])
  ELSE ok(sort(env_names(DirOrder, entries)))

InitDir ==
  /\ pc = "start"
  /\ cmd = ""
  /\ CmdIdle
  /\ input = <<>>
  /\ result = <<>>
  /\ state_file = <<>>
  /\ dir_entries \in UNION {[S -> DirentKinds] : S \in SUBSET SeqToSet(DirOrder)}
  /\ files = <<>>
  /\ fs_calls = <<>>
  /\ locals = <<>>

GetAllEnvironments ==
  /\ pc = "start"
  /\ \E fail \in {"none", "readdir"} :
       /\ input' = [fail |-> fail]
       /\ result' = get_all_environments(dir_entries, fail)
  /\ pc' = "done"
  /\ cmd' = "get_all_environments"
  /\ UNCHANGED <<state_file, dir_entries, files, fs_calls, locals>>
  /\ UNCHANGED cmdvars

NextDir == GetAllEnvironments

SpecDir == InitDir /\ [][NextDir]_vars

----------------------------------------------------------------------------
(* C18 *)

\* name is a regular file of the working directory
RegularFile(name) == name \in DOMAIN dir_entries /\ dir_entries[name] = "file"

\* C18: the list get_all_environments returns has no name twice; "master"
\* is in it exactly when `.env` is a regular file; every other name N in it
\* has a regular file `.env.N`.
C18_OneFilePerEnvironment ==
  (cmd = "get_all_environments" /\ result.kind = "ok") =>
    LET names == result.value
    IN  /\ \A i, j \in DOMAIN names : names[i] = names[j] => i = j
        /\ master \in SeqToSet(names) <=> RegularFile(dot_env)
        /\ \A N \in SeqToSet(names) \ {master} : RegularFile(EnvFileOf(N))

----------------------------------------------------------------------------
(* storage/client.ts, storage/providers.ts: create_storage_client *)

\* Object.values(PROVIDER_REGISTRY), in the order of the registry
PROVIDER_REGISTRY == <<"onepassword", "bitwarden", "cs_launch">>

\* the key whose value is_available tests
MarkerKey(provider) ==
  CASE provider = "onepassword" -> "OP_SERVICE_ACCOUNT_TOKEN"
    [] provider = "bitwarden" -> "BWS_ACCESS_TOKEN"
    [] provider = "cs_launch" -> "CS_LAUNCH_AUTH_TOKEN"

\* the env maps given to create_storage_client
ProviderKeys == {MarkerKey(p) : p \in Providers} \cup {"DOTMAN_PROJECT_NAME"}

ProviderEnvMaps == UNION {[S -> Values] : S \in SUBSET ProviderKeys}

\* how a provider's create ends: the schema rejects the env map, the
\* client's init fails, or the client is returned
CreateOutcomes == {"ok", "schema_error", "init_error"}

\* a marker key counts as soon as it is present
is_available_if_present(provider, env_map) ==
  MarkerKey(provider) \in DOMAIN env_map

\* is_available: Boolean(env_map[marker key])
is_available(provider, env_map) ==
  ~Falsy(Get(env_map, MarkerKey(provider)))

\* Object.values(PROVIDER_REGISTRY).filter(is_available)
RECURSIVE available_providers(_, _)
available_providers(registry, env_map) ==
  IF registry = <<>> THEN <<>>
  ELSE IF is_available(Head(registry), env_map)
    THEN <<Head(registry)>> \o available_providers(Tail(registry), env_map)
  ELSE available_providers(Tail(registry), env_map)

\* create_storage_client(env_map): the result and the create calls made
create_storage_client(env_map, outcome) ==
  LET available == available_providers(PROVIDER_REGISTRY, env_map)
      selected == available[1]
  IN  IF Len(available) > 1
        THEN [result |-> err([message |-> "more_than_one_source"]), created |-> <<>>]
      ELSE IF Len(available) <= 0
        THEN [result |-> err([message |-> "no_provider"]), created |-> <<>>]
      ELSE [result |-> IF outcome = "ok" THEN ok(selected)
                       ELSE err([message |-> outcome]),
            created |-> <<selected>>]

InitClient ==
  /\ pc = "start"
  /\ cmd = ""
  /\ CmdIdle
  /\ input \in ProviderEnvMaps
  /\ result = <<>>
  /\ state_file = <<>>
  /\ dir_entries = <<>>
  /\ files = <<>>
  /\ fs_calls = <<>>
  /\ locals = <<>>

CreateStorageClient ==
  /\ pc = "start"
  /\ \E outcome \in CreateOutcomes :
       LET r == create_storage_client(input, outcome)
       IN  /\ result' = r.result
           /\ calls' = r.created
           /\ storage_client' = IF r.result.kind = "ok" THEN r.result.value
                                ELSE undefined
  /\ pc' = "done"
  /\ cmd' = "create_storage_client"
  /\ UNCHANGED <<env_file, vault, apply, rendered, diff_result, set_project_arg,
                 env_before, vault_before, client_env_keys, next_uuid, projects>>
  /\ UNCHANGED <<input, state_file, dir_entries, files, fs_calls, locals>>

NextClient == CreateStorageClient

SpecClient == InitClient /\ [][NextClient]_vars

----------------------------------------------------------------------------
(* C19 *)

\* the providers whose marker key has a non-empty value in the env map
Matching(env_map) ==
  {p \in Providers :
     MarkerKey(p) \in DOMAIN env_map /\ env_map[MarkerKey(p)] # ""}

\* C19: create_storage_client calls create, of the one matching provider
\* and once, exactly when one provider's marker key has a non-empty value;
\* with none it returns the no-provider error and with more than one the
\* multiple-providers error, and then no create is called.
C19_ProviderSelection ==
  cmd = "create_storage_client" =>
    /\ Cardinality(Matching(input)) = 1 <=> calls # <<>>
    /\ Len(calls) <= 1
    /\ \A i \in DOMAIN calls : Matching(input) = {calls[i]}
    /\ Cardinality(Matching(input)) = 0 => result = err([message |-> "no_provider"])
    /\ Cardinality(Matching(input)) > 1
         => result = err([message |-> "more_than_one_source"])

\* one marker key is set, another one is present and empty, and the create
\* of the first provider was called
C19_Witness ==
  /\ cmd = "create_storage_client"
  /\ "BWS_ACCESS_TOKEN" \in DOMAIN input /\ input["BWS_ACCESS_TOKEN"] # ""
  /\ "OP_SERVICE_ACCOUNT_TOKEN" \in DOMAIN input
  /\ input["OP_SERVICE_ACCOUNT_TOKEN"] = ""
  /\ calls = <<"bitwarden">>
  /\ result = ok("bitwarden")

----------------------------------------------------------------------------
(* lib/dotenv.ts: read_env, write_env, read_env_files.  A path is the       *)
(* sequence of its segments; a file name is relative to the working         *)
(* directory or absolute.  Every file-system call is a step of its own, so  *)
(* that another process can act between the lstat and the read or write.    *)

\* process.cwd() as a path
cwd_path == <<"home", "proj">>

Rel(segments) == [absolute |-> FALSE, segments |-> segments]

Abs(segments) == [absolute |-> TRUE, segments |-> segments]

\* the file names given to read_env and write_env
FileNames ==
  { Rel(<<".env">>), Rel(<<".env.dev">>), Rel(<<".">>),
    Rel(<<"..", "outside">>), Rel(<<"..", "proj", ".env">>),
    Rel(<<"sub", ".env">>),
    Abs(<<"etc", "passwd">>), Abs(<<"home", "proj", ".env">>) }

\* the files of the model, by their place on the disk
P_env == cwd_path \o <<".env">>

P_dev == cwd_path \o <<".env.dev">>

P_sub == cwd_path \o <<"sub">>

P_subenv == P_sub \o <<".env">>

O_outside == <<"home", "outside">>

O_passwd == <<"etc", "passwd">>

O_ext == <<"srv", "ext">>

O_extenv == O_ext \o <<".env">>

\* fs.writeFile(..., { mode: 0o600 })
mode_0600 == 384

\* permissions of a file that others may read (0o644)
Modes == {mode_0600, 420}

\* what a place on the disk holds
Missing == [kind |-> "missing"]

Dir == [kind |-> "dir"]

Link(target) == [kind |-> "link", target |-> target]

File(content, mode) == [kind |-> "file", content |-> content, mode |-> mode]

\* parsed contents of an env file
EnvContents == {<<>>} \cup {[k \in {"API_KEY"} |-> v] : v \in Values}

\* path.resolve: "." dropped, ".." removes the segment before it
RECURSIVE normalize(_, _)
normalize(resolved, rest) ==
  IF rest = <<>> THEN resolved
  ELSE IF Head(rest) = "." THEN normalize(resolved, Tail(rest))
  ELSE IF Head(rest) = ".."
    THEN normalize(IF resolved = <<>> THEN <<>>
                   ELSE SubSeq(resolved, 1, Len(resolved) - 1), Tail(rest))
  ELSE normalize(Append(resolved, Head(rest)), Tail(rest))

path_resolve(from, name) ==
  normalize(<<>>, IF name.absolute THEN name.segments ELSE from \o name.segments)

\* validate_path_security: final_path starts with cwd + sep, or is cwd
validate_path_security(env_file_name, operation) ==
  LET final_path == path_resolve(cwd_path, env_file_name)
      canonical_cwd == path_resolve(cwd_path, Rel(<<>>))
      is_within_cwd == startsWith(final_path, canonical_cwd)
  IN  IF ~is_within_cwd
        THEN err([message |-> "outside_cwd", operation |-> operation])
      ELSE ok(final_path)

\* what the disk holds at a place
Node(fs, place) == IF place \in DOMAIN fs THEN fs[place] ELSE Missing

\* the place a path names: symbolic links of its directories are followed,
\* the one of its last segment is not
RECURSIVE Place(_, _)
Place(fs, path) ==
  IF Len(path) <= 1 THEN path
  ELSE LET parent == Place(fs, SubSeq(path, 1, Len(path) - 1))
           dir == IF Node(fs, parent).kind = "link"
                    THEN Node(fs, parent).target ELSE parent
       IN  Append(dir, path[Len(path)])

\* fs.lstat: the node at the place, a symbolic link not followed
lstat(fs, path) == Node(fs, Place(fs, path))

\* the place fs.readFile and fs.writeFile open: a symbolic link is followed
Opened(fs, path) ==
  IF lstat(fs, path).kind = "link" THEN lstat(fs, path).target
  ELSE Place(fs, path)

\* check_symlink_security
check_symlink_security(fs, final_path, env_file_name) ==
  IF lstat(fs, final_path).kind = "link"
    THEN err([message |-> "symlink", file |-> env_file_name])
  ELSE ok(undefined)

\* steps 3 to 5 of read_env: fs.readFile, the empty file, parse
read_file(fs, final_path, env_file_name) ==
  LET node == Node(fs, Opened(fs, final_path))
  IN  IF node.kind = "missing"
        THEN err([message |-> "not_found", file |-> env_file_name])
      ELSE IF node.kind # "file"
        THEN err([message |-> "failed_to_read", file |-> env_file_name])
      ELSE ok(node.content)

\* step 4 of write_env: fs.writeFile with a mode, which is used only when
\* the call creates the file
write_file(fs, final_path, env_file_name, final_str, mode) ==
  LET place == Opened(fs, final_path)
      node == Node(fs, place)
  IN  IF node.kind = "dir" \/ place \notin DOMAIN fs
        THEN [result |-> err([message |-> "could_not_update", file |-> env_file_name]),
              files |-> fs]
      ELSE [result |-> ok(undefined),
            files |-> [fs EXCEPT ![place] =
                         File(final_str, IF node.kind = "file" THEN node.mode ELSE mode)]]

\* read_env_files drops the test for "master"
env_file_name_any(environment) ==
  IF ~Falsy(environment) THEN ".env." \o environment ELSE ".env"

\* const env_file_name in read_env_files
env_file_name_of(environment) ==
  IF ~Falsy(environment) /\ environment # "master"
    THEN ".env." \o environment ELSE ".env"

\* a record of one file-system call: the path given, the place opened and
\* whether the last segment of the path was a symbolic link at the call
FsCall(call, fs) ==
  [call |-> call,
   name |-> locals.env_file_name,
   path |-> locals.final_path,
   place |-> IF call = "lstat" THEN Place(fs, locals.final_path)
             ELSE Opened(fs, locals.final_path),
   link |-> lstat(fs, locals.final_path).kind = "link"]

\* the maps given to write_env
WriteItems == {<<>>} \cup {[k \in {"API_KEY"} |-> v] : v \in Values \ {""}}

\* the environments given to read_env_files
Environments == {undefined, "", "master", "dev"}

InitFiles ==
  /\ pc = "start"
  /\ cmd = ""
  /\ CmdIdle
  /\ input = <<>>
  /\ result = <<>>
  /\ state_file = <<>>
  /\ dir_entries = <<>>
  /\ fs_calls = <<>>
  /\ locals = <<>>
  /\ \E env \in {Missing, Link(O_passwd)}
                  \cup {File(c, m) : c \in EnvContents, m \in Modes},
        dev_file \in {Missing, Link(O_passwd)}
                  \cup {File(c, mode_0600) : c \in EnvContents},
        sub \in {Dir, Link(O_ext)},
        outside \in {Missing, File(<<>>, mode_0600)} :
       files = [place \in {cwd_path, P_env, P_dev, P_sub, P_subenv,
                           O_outside, O_passwd, O_ext, O_extenv} |->
                  CASE place = P_env -> env
                    [] place = P_dev -> dev_file
                    [] place = P_sub -> sub
                    [] place = O_outside -> outside
                    [] place \in {cwd_path, O_ext} -> Dir
                    [] OTHER -> File(<<>>, 420)]

\* the first step of read_env(env_file_name): validate_path_security
BeginRead(env_file_name, phase, env_map) ==
  LET validated == validate_path_security(env_file_name, "read")
  IN  /\ locals' = [env_file_name |-> env_file_name,
                    final_path |-> IF validated.kind = "ok" THEN validated.value ELSE <<>>,
                    phase |-> phase,
                    env_map |-> env_map]
      /\ IF validated.kind = "err"
           THEN pc' = "done" /\ result' = validated
         ELSE pc' = "lstat" /\ result' = <<>>

\* read_env(env_file_name) is called
ReadEnv ==
  /\ pc = "start"
  /\ cmd' = "read_env"
  /\ \E env_file_name \in FileNames :
       /\ input' = [env_file_name |-> env_file_name]
       /\ BeginRead(env_file_name, 0, <<>>)
  /\ UNCHANGED <<state_file, dir_entries, files, fs_calls>>
  /\ UNCHANGED cmdvars

\* write_env(items, env_file_name) is called: steps 1 and 2
WriteEnv ==
  /\ pc = "start"
  /\ cmd' = "write_env"
  /\ \E items \in WriteItems, env_file_name \in FileNames,
        stringify \in {"ok", "throws"} :
       LET validated == validate_path_security(env_file_name, "write")
       IN  /\ input' = [items |-> items, env_file_name |-> env_file_name,
                        stringify |-> stringify]
           /\ locals' = [env_file_name |-> env_file_name,
                         final_path |-> IF validated.kind = "ok"
                                          THEN validated.value ELSE <<>>,
                         phase |-> 0,
                         env_map |-> <<>>]
           /\ IF validated.kind = "err"
                THEN pc' = "done" /\ result' = validated
              ELSE IF stringify = "throws"
                THEN pc' = "done" /\ result' = rejected([message |-> "dotenv_stringify"])
              ELSE pc' = "lstat" /\ result' = <<>>
  /\ UNCHANGED <<state_file, dir_entries, files, fs_calls>>
  /\ UNCHANGED cmdvars

\* read_env_files(environment) is called: read_env(".env") begins
ReadEnvFiles ==
  /\ pc = "start"
  /\ cmd' = "read_env_files"
  /\ \E environment \in Environments :
       /\ input' = [environment |-> environment]
       /\ BeginRead(Rel(<<".env">>), 1, <<>>)
  /\ UNCHANGED <<state_file, dir_entries, files, fs_calls>>
  /\ UNCHANGED cmdvars

\* check_symlink_security: fs.lstat(final_path)
Lstat ==
  /\ pc = "lstat"
  /\ fs_calls' = Append(fs_calls, FsCall("lstat", files))
  /\ LET checked == check_symlink_security(files, locals.final_path, locals.env_file_name)
     IN  IF checked.kind = "err"
           THEN pc' = "done" /\ result' = checked
         ELSE /\ pc' = IF cmd = "write_env" THEN "writeFile" ELSE "readFile"
              /\ UNCHANGED result
  /\ UNCHANGED <<cmd, input, state_file, dir_entries, files, locals>>
  /\ UNCHANGED cmdvars

\* fs.readFile(final_path) and what read_env and read_env_files do with it
ReadFile ==
  /\ pc = "readFile"
  /\ fs_calls' = Append(fs_calls, FsCall("readFile", files))
  /\ LET read == read_file(files, locals.final_path, locals.env_file_name)
         env_file_name == env_file_name_of(input.environment)
     IN  IF read.kind = "err" \/ locals.phase = 0
           THEN pc' = "done" /\ result' = read /\ UNCHANGED locals
         ELSE IF locals.phase = 1 /\ Falsy(input.environment)
           THEN /\ pc' = "done"
                /\ result' = ok([env_map |-> read.value,
                                 environment_env_map |-> read.value,
                                 env_file_name |-> env_file_name])
                /\ UNCHANGED locals
         ELSE IF locals.phase = 1
           THEN BeginRead(Rel(<<env_file_name>>), 2, read.value)
         ELSE /\ pc' = "done"
              /\ result' = ok([env_map |-> locals.env_map,
                               environment_env_map |-> read.value,
                               env_file_name |-> env_file_name])
              /\ UNCHANGED locals
  /\ UNCHANGED <<cmd, input, state_file, dir_entries, files>>
  /\ UNCHANGED cmdvars

\* fs.writeFile(final_path, final_str, { mode: 0o600 })
WriteFile ==
  /\ pc = "writeFile"
  /\ fs_calls' = Append(fs_calls, FsCall("writeFile", files))
  /\ LET written == write_file(files, locals.final_path, locals.env_file_name,
                               input.items, mode_0600)
     IN  /\ files' = written.files
         /\ result' = written.result
  /\ pc' = "done"
  /\ UNCHANGED <<cmd, input, state_file, dir_entries, locals>>
  /\ UNCHANGED cmdvars

\* another process replaces an env file of the working directory by a
\* symbolic link to a file outside of it, while an operation runs
SwapSymlink ==
  /\ pc \in {"lstat", "readFile", "writeFile"}
  /\ \E place \in {P_env, P_dev} :
       /\ files[place].kind # "link"
       /\ files' = [files EXCEPT ![place] = Link(O_passwd)]
  /\ UNCHANGED <<pc, cmd, input, result, state_file, dir_entries, fs_calls, locals>>
  /\ UNCHANGED cmdvars

\* the operations with no other process at work
NextFiles == ReadEnv \/ WriteEnv \/ ReadEnvFiles \/ Lstat \/ ReadFile \/ WriteFile

SpecFiles == InitFiles /\ [][NextFiles]_vars

NextFs == NextFiles \/ SwapSymlink

SpecFs == InitFiles /\ [][NextFs]_vars

----------------------------------------------------------------------------
(* C14, C15, C16, C20 *)

\* the place is the working directory or below it
InsideCwd(place) == Len(place) >= 2 /\ place[1] = "home" /\ place[2] = "proj"

\* C14: read_env and write_env answer a file name that resolves outside the
\* working directory with the outside-of-cwd error and without any call of
\* the file system, and no call of theirs reads or writes a file whose
\* place is outside the working directory.
C14_NoPathEscape ==
  cmd \in {"read_env", "write_env"} =>
    /\ (pc = "done" /\ ~InsideCwd(path_resolve(cwd_path, input.env_file_name)))
         => /\ result = err([message |-> "outside_cwd",
                             operation |-> IF cmd = "read_env" THEN "read" ELSE "write"])
            /\ fs_calls = <<>>
    /\ \A i \in DOMAIN fs_calls :
         fs_calls[i].call \in {"readFile", "writeFile"} => InsideCwd(fs_calls[i].place)

\* C15: an lstat that finds a symbolic link ends the operation with the
\* symlink error, and no readFile or writeFile is made on a path that is a
\* symbolic link at the time of the call, whatever another process swaps.
C15_NoSymlinkUse ==
  \A i \in DOMAIN fs_calls :
    /\ (fs_calls[i].call = "lstat" /\ fs_calls[i].link)
         => /\ i = Len(fs_calls)
            /\ pc = "done"
            /\ result = err([message |-> "symlink", file |-> fs_calls[i].name])
    /\ fs_calls[i].call \in {"readFile", "writeFile"} => ~fs_calls[i].link

\* C16: after write_env returned ok the file it wrote has mode 0600.
C16_OwnerOnlyMode ==
  (cmd = "write_env" /\ pc = "done" /\ result.kind = "ok") =>
    LET written == files[fs_calls[Len(fs_calls)].place]
    IN  written.kind = "file" /\ written.mode = mode_0600

\* what reading the env file `name` of the working directory gives
ReadOf(name) ==
  LET node == files[cwd_path \o <<name>>]
  IN  CASE node.kind = "link" -> err([message |-> "symlink", file |-> Rel(<<name>>)])
        [] node.kind = "missing" -> err([message |-> "not_found", file |-> Rel(<<name>>)])
        [] node.kind = "file" -> ok(node.content)

\* C20: read_env_files(E) for a non-master E reads `.env` before `.env.E`;
\* the error of `.env` is the result and `.env.E` is then not touched; else
\* the error of `.env.E` is the result; else the result holds the content
\* of `.env`, the content of `.env.E` and the name `.env.E`.  Without E, or
\* with "master", the result holds the content of `.env` twice and the
\* name `.env`.
C20_ReadOrder ==
  (cmd = "read_env_files" /\ pc = "done") =>
    LET E == input.environment
        base == ReadOf(".env")
    IN  IF E \in {undefined, "", "master"}
          THEN base.kind = "ok" =>
                 result = ok([env_map |-> base.value,
                              environment_env_map |-> base.value,
                              env_file_name |-> ".env"])
        ELSE LET second == ReadOf(".env." \o E)
             IN  /\ fs_calls # <<>> /\ fs_calls[1].name = Rel(<<".env">>)
                 /\ \A i, j \in DOMAIN fs_calls :
                      (fs_calls[i].name = Rel(<<".env">>)
                         /\ fs_calls[j].name = Rel(<<".env." \o E>>)) => i < j
                 /\ base.kind = "err" =>
                      /\ result = base
                      /\ \A i \in DOMAIN fs_calls : fs_calls[i].name = Rel(<<".env">>)
                 /\ (base.kind = "ok" /\ second.kind = "err") => result = second
                 /\ (base.kind = "ok" /\ second.kind = "ok") =>
                      result = ok([env_map |-> base.value,
                                   environment_env_map |-> second.value,
                                   env_file_name |-> ".env." \o E])

\* both files of the environment "dev" were read, with different contents
C20_Witness ==
  /\ cmd = "read_env_files"
  /\ pc = "done"
  /\ input.environment = "dev"
  /\ result.kind = "ok"
  /\ result.value.env_map # result.value.environment_env_map
  /\ Len(fs_calls) = 4

----------------------------------------------------------------------------
(* C25, C26, C27: push and pull against the vault *)

\* the secrets push_cmd fetched, and those of them titled k
FetchedBefore == get_project(storage_client, vault_before)

FetchedTitled(k) == {i \in DOMAIN FetchedBefore : FetchedBefore[i].title = k}

\* the secrets titled k of the project passed to set_project
ArgTitled(k) == {i \in DOMAIN set_project_arg : set_project_arg[i].title = k}

\* C25: in the project push --apply passes to set_project, a modified
\* secret keeps its id and title and has the new value, an added key is
\* there once under an id no fetched secret has, a deleted key is absent,
\* and a fetched secret no change names is there as it was fetched.
C25_PushApplyFrame ==
  (cmd = "push" /\ "set_project" \in SeqToSet(calls)) =>
    /\ \A c \in DOMAIN diff_result.changes :
         LET change == diff_result.changes[c]
         IN  CASE change.type = "modified" ->
                    \A i \in FetchedTitled(change.key) :
                      \E j \in DOMAIN set_project_arg :
                        set_project_arg[j] =
                          Secret(FetchedBefore[i].id, change.key, change.new_value)
               [] change.type = "added" ->
                    /\ Cardinality(ArgTitled(change.key)) = 1
                    /\ \A j \in ArgTitled(change.key) :
                         /\ set_project_arg[j].value = change.new_value
                         /\ \A i \in DOMAIN FetchedBefore :
                              FetchedBefore[i].id # set_project_arg[j].id
                         /\ \A l \in DOMAIN set_project_arg :
                              set_project_arg[l].id = set_project_arg[j].id => l = j
               [] change.type = "deleted" -> ArgTitled(change.key) = {}
    /\ \A i \in DOMAIN FetchedBefore :
         ChangesFor(FetchedBefore[i].title) = {} =>
           \E j \in DOMAIN set_project_arg : set_project_arg[j] = FetchedBefore[i]

\* the title/value pairs of a list of secrets
Pairs(secrets) == {<<secrets[i].title, secrets[i].value>> : i \in DOMAIN secrets}

\* C26: after push --apply rendered success, the remote project holds
\* exactly the secrets of the project passed to set_project, and no key of
\* a deleted change is returned by get_project, for every provider.
C26_DeletionsReachVault ==
  (cmd = "push" /\ rendered = "success") =>
    /\ Pairs(get_project(storage_client, vault)) = Pairs(set_project_arg)
    /\ \A c \in DOMAIN diff_result.changes :
         diff_result.changes[c].type = "deleted" =>
           \A i \in DOMAIN get_project(storage_client, vault) :
             get_project(storage_client, vault)[i].title # diff_result.changes[c].key

\* C27: when get_project returned a project with no secrets, pull renders
\* the no-secrets error, has computed no diff, has not called write_env and
\* leaves the env file as it was, with and without --apply.
C27_EmptyRemoteKeepsLocal ==
  (/\ cmd = "pull"
   /\ "get_project" \in SeqToSet(calls)
   /\ rendered # "error"
   /\ vault_before = <<>>) =>
    /\ rendered = "error_no_secrets"
    /\ diff_result = NoDiff
    /\ "write_env" \notin SeqToSet(calls)
    /\ env_file = env_before

\* pull --apply met an empty project while the env file held a variable
C27_Witness ==
  /\ cmd = "pull"
  /\ apply
  /\ vault_before = <<>>
  /\ "API_KEY" \in DOMAIN env_before
  /\ env_before["API_KEY"] = "v1"
  /\ rendered = "error_no_secrets"

----------------------------------------------------------------------------
(* C23 *)

\* C23: when no file-system call fails, save_current_env with a valid name
\* in a directory with `.env` returns ok on a state file that is missing or
\* does not parse, and the state file is then a JSON object whose only
\* entry maps the working directory to the name.
C23_SelfHeal ==
  [][(/\ cmd' = "save_current_env"
      /\ state_file.kind \in {"missing", "text"}
      /\ input'.fail = "none"
      /\ validate_environment_name(input'.environment).kind = "ok"
      /\ dot_env \in DOMAIN dir_entries)
     => /\ result' = ok(undefined)
        /\ state_file' =
             [kind |-> "json",
              value |-> JObject([d \in {cwd} |-> JString(Trimmed(input'.environment))])]]_vars

\* a save reset the state file to "{}" and then wrote the entry
C23_Witness ==
  /\ cmd = "save_current_env"
  /\ result.kind = "ok"
  /\ "writeFile_reset" \in SeqToSet(fs_calls)
  /\ state_file = [kind |-> "json", value |-> JObject([d \in {cwd} |-> JString(dev)])]

----------------------------------------------------------------------------
(* Two save_current_env invocations on one state file (lib/environment.ts)  *)

\* the two invocations and the working directory of each
Procs == {1, 2}

process_cwd == <<cwd, "/srv/a">>

\* { ...json, [cwd]: environment } for the working directory dir
updated_json_in(dir, json, environment) ==
  JObject([d \in DOMAIN spread(json) \cup {dir} |->
             IF d = dir THEN JString(environment) ELSE spread(json)[d]])

\* the final write as it would be if it read the state file again under a
\* lock instead of using the object parsed earlier
written_json_reread(l, file) ==
  [kind |-> "json",
   value |-> updated_json_in(l.cwd,
                             IF file.kind = "json" THEN file.value ELSE JObject(<<>>),
                             l.environment)]

\* what the final safe_fs_write_file of an invocation leaves in the state
\* file: the object it parsed earlier with its own entry set
written_json(l, file) ==
  [kind |-> "json", value |-> updated_json_in(l.cwd, l.json, l.environment)]

InitSave ==
  /\ pc = "run"
  /\ cmd = "save_current_env"
  /\ CmdIdle
  /\ input \in [Procs -> {dev, master, <<>>}]
  /\ result = [p \in Procs |-> <<>>]
  /\ state_file \in StateFiles
  /\ dir_entries = [n \in {dot_env} |-> "file"]
  /\ files = <<>>
  /\ fs_calls = <<>>
  /\ locals = [p \in Procs |-> [pc |-> "start", cwd |-> process_cwd[p],
                                environment |-> <<>>, json |-> JNull]]

\* an invocation ends with an error when one of its calls fails
SaveFail(p, message) ==
  /\ locals[p].pc \in {"read", "reset", "write"}
  /\ locals' = [locals EXCEPT ![p].pc = "done"]
  /\ result' = [result EXCEPT ![p] = err([message |-> message])]
  /\ UNCHANGED state_file

\* validate_environment_name, get_state_file_path, validate_project_directory
SaveBegin(p) ==
  /\ locals[p].pc = "start"
  /\ LET validated_environment == validate_environment_name(input[p])
     IN  IF validated_environment.kind = "err" \/ dot_env \notin DOMAIN dir_entries
           THEN /\ locals' = [locals EXCEPT ![p].pc = "done"]
                /\ result' = [result EXCEPT ![p] =
                                IF validated_environment.kind = "err"
                                  THEN validated_environment
                                  ELSE err([message |-> "not_valid_project"])]
           ELSE /\ locals' = [locals EXCEPT ![p].pc = "read",
                                            ![p].environment = validated_environment.value]
                /\ UNCHANGED result
  /\ UNCHANGED state_file

\* safe_fs_read_file and safe_json_parse
SaveRead(p) ==
  /\ locals[p].pc = "read"
  /\ \/ SaveFail(p, "readFile")
     \/ /\ locals' = IF state_file.kind = "json"
                       THEN [locals EXCEPT ![p].pc = "write", ![p].json = state_file.value]
                       ELSE [locals EXCEPT ![p].pc = "reset"]
        /\ UNCHANGED <<result, state_file>>

\* safe_fs_write_file(file_path, "{}") after ENOENT or a parse error
SaveReset(p) ==
  /\ locals[p].pc = "reset"
  /\ \/ SaveFail(p, "writeFile")
     \/ /\ state_file' = [kind |-> "json", value |-> JObject(<<>>)]
        /\ locals' = [locals EXCEPT ![p].pc = "write", ![p].json = JObject(<<>>)]
        /\ UNCHANGED result

\* safe_json_stringify and the final safe_fs_write_file
SaveWrite(p) ==
  /\ locals[p].pc = "write"
  /\ \/ SaveFail(p, "writeFile")
     \/ /\ state_file' = written_json(locals[p], state_file)
        /\ locals' = [locals EXCEPT ![p].pc = "done"]
        /\ result' = [result EXCEPT ![p] = ok(undefined)]

SaveStep(p) ==
  /\ pc = "run"
  /\ \/ SaveBegin(p)
     \/ SaveRead(p)
     \/ SaveReset(p)
     \/ SaveWrite(p)
  /\ UNCHANGED <<pc, cmd, input, dir_entries, files, fs_calls>>
  /\ UNCHANGED cmdvars

NextSave == \E p \in Procs : SaveStep(p)

SpecSave == InitSave /\ [][NextSave]_vars

----------------------------------------------------------------------------
(* C24 *)

\* C24: two concurrent save_current_env invocations from different working
\* directories read and write the state file without a lock: the final
\* write of each stores the object that invocation parsed earlier plus its
\* own entry, whatever the other has written since, so both can return ok
\* while the file ends with only one of the two entries.
C24_ReadThenWriteNoLock ==
  [][\A p \in Procs :
       (locals[p].pc = "write" /\ locals'[p].pc = "done" /\ result'[p].kind = "ok")
         => /\ state_file'.kind = "json"
            /\ state_file'.value =
                 updated_json_in(process_cwd[p], locals[p].json, locals[p].environment)]_vars

\* both invocations returned ok and the state file holds the entry of the
\* first working directory only: the write of the second is lost
C24_Witness ==
  /\ pc = "run"
  /\ \A p \in Procs : locals[p].pc = "done" /\ result[p] = ok(undefined)
  /\ state_file.kind = "json"
  /\ state_file.value.type = "object"
  /\ DOMAIN state_file.value.entries = {process_cwd[1]}

----------------------------------------------------------------------------
(* env use (cmds/env.ts)                                                    *)

UseNames == {dev, <<" ">> \o dev \o <<" ">>, master, <<"a">>, <<>>}

UseFailPoints == {"readdir", "get_read"} \cup StateFailPoints

\* the directory entries env use is run on
UseFiles == {dot_env, EnvFileOf(dev), EnvFileOf(<<" ">> \o dev)}

\* all_environments.find((e) => e === environment) as it would be if every
\* name were taken as found
user_environment_found_any(all_environments, environment) == environment

\* all_environments.find((e) => e === environment)
user_environment_found(all_environments, environment) ==
  IF environment \in SeqToSet(all_environments) THEN environment ELSE undefined

\* the action of `env use <environment>`: the message rendered, the state
\* file it leaves and the state-file calls of save_current_env
env_use(environment, file, entries, fail) ==
  LET all_environments_res ==
        get_all_environments(entries, IF fail = "readdir" THEN fail ELSE "none")
      found == user_environment_found(all_environments_res.value, environment)
      current_env_res ==
        get_current_environment(file, IF fail = "get_read" THEN "read"
                                      ELSE IF fail = "mkdir" THEN fail ELSE "none")
      res == save_current_env(environment, file, entries,
                              IF fail \in StateFailPoints THEN fail ELSE "none")
      quiet(message) == [rendered |-> message, state_file |-> file, calls |-> <<>>]
  IN  IF all_environments_res.kind = "err" THEN quiet("failed_to_get_all")
      ELSE IF found = undefined \/ found = <<>> THEN quiet("not_found")
      ELSE IF current_env_res.kind = "rejected" THEN quiet("unhandled_rejection")
      ELSE IF current_env_res = ok(JString(environment)) THEN quiet("already_using")
      ELSE [rendered |-> IF res.result.kind = "err" THEN res.result.error.message
                         ELSE "success",
            state_file |-> res.state_file,
            calls |-> res.calls]

InitUse ==
  /\ pc = "start"
  /\ cmd = ""
  /\ CmdIdle
  /\ input = <<>>
  /\ result = <<>>
  /\ state_file \in StateFiles
  /\ dir_entries \in UNION {[S -> DirentKinds] : S \in SUBSET UseFiles}
  /\ files = <<>>
  /\ fs_calls = <<>>
  /\ locals = <<>>

EnvUse ==
  /\ pc = "start"
  /\ \E environment \in UseNames, fail \in UseFailPoints :
       LET r == env_use(environment, state_file, dir_entries, fail)
       IN  /\ input' = [environment |-> environment, fail |-> fail]
           /\ result' = r.rendered
           /\ state_file' = r.state_file
           /\ fs_calls' = r.calls
  /\ pc' = "done"
  /\ cmd' = "env_use"
  /\ UNCHANGED <<dir_entries, files, locals>>
  /\ UNCHANGED cmdvars

NextUse == EnvUse

SpecUse == InitUse /\ [][NextUse]_vars

----------------------------------------------------------------------------
(* C28 *)

\* the list get_all_environments returns in an invocation on these entries
Listed(fail) == get_all_environments(dir_entries, IF fail = "readdir" THEN fail ELSE "none")

\* C28: env use X changes the state file only when X is in the list that
\* get_all_environments returned in that invocation, and then only to
\* record X for the working directory or on the way to it; when X is not
\* in the list it reports not-found and leaves the state file as it was;
\* when X already is the current environment it makes no write.
C28_EnvUse ==
  [][cmd' = "env_use" =>
       LET X == input'.environment
           listed == Listed(input'.fail)
           in_list == listed.kind = "ok" /\ X \in SeqToSet(listed.value)
       IN  /\ state_file' # state_file => in_list
           /\ (result' = "success") =>
                /\ in_list
                /\ state_file'.kind = "json"
                /\ state_file'.value.type = "object"
                /\ cwd \in DOMAIN state_file'.value.entries
                /\ state_file'.value.entries[cwd] = JString(X)
           /\ (listed.kind = "ok" /\ ~in_list) =>
                result' = "not_found" /\ state_file' = state_file
           /\ (in_list /\ input'.fail = "none"
                 /\ get_current_environment(state_file, "none") = ok(JString(X))) =>
                /\ result' = "already_using"
                /\ fs_calls' = <<>>
                /\ state_file' = state_file]_vars

\* env use dev recorded dev, which is listed because `.env.dev` is a file
C28_Witness ==
  /\ cmd = "env_use"
  /\ input.environment = dev
  /\ result = "success"
  /\ RegularFile(EnvFileOf(dev))
  /\ "writeFile" \in SeqToSet(fs_calls)
  /\ state_file.value.entries[cwd] = JString(dev)

----------------------------------------------------------------------------
(* Remote projects: get_project and create_project of the three clients    *)
(* (storage/clients/op.ts, bw.ts, cs-launch.ts)                             *)

\* env_map.DOTMAN_PROJECT_NAME
base_project_name == <<"a", "p", "p">>

\* the name resolve_environment_name gives the base environment
launch_default == <<"D", "e", "f", "a", "u", "l", "t">>

\* get_project_name(base_project_name, environment); an absent environment
\* is the empty name
get_project_name(base, environment) ==
  IF environment = <<>> \/ environment = master THEN base
  ELSE base \o project_environment_separator \o environment

resolve_environment_name(environment) ==
  IF environment = <<>> \/ environment = master THEN launch_default
  ELSE environment

\* the name under which a client keeps the project of an environment
remote_name(client, environment) ==
  IF client = "cs_launch" THEN resolve_environment_name(environment)
  ELSE get_project_name(base_project_name, environment)

RemoteProject(id, name, secrets) == [id |-> id, name |-> name, secrets |-> secrets]

\* whether projects.find((p) => p.name === name) finds a project
found_in(ps, name) == \E i \in 1..Len(ps) : ps[i].name = name

\* projects.find((p) => p.name === name) when it finds one: the first match
find_project(ps, name) ==
  ps[CHOOSE i \in 1..Len(ps) :
       /\ ps[i].name = name
       /\ \A j \in 1..(i - 1) : ps[j].name # name]

\* the project a create request adds: a new id and no secrets
created_project(ps, name) == RemoteProject("p" \o ToString(Len(ps) + 1), name, <<>>)

\* a Project as the clients return it
Project(p, secrets) == [id |-> p.id, title |-> p.name, secrets |-> secrets]

\* get_op_project: the project and the items of the vault afterwards
get_op_project(ps, environment) ==
  LET env_project_name == get_project_name(base_project_name, environment)
      found_project == find_project(ps, env_project_name)
      op_project == created_project(ps, env_project_name)
  IN  IF ~found_in(ps, env_project_name)
        THEN [result |-> ok(Project(op_project, <<>>)),
              projects |-> Append(ps, op_project),
              calls |-> <<"vaults.list", "items.list", "items.create">>]
      ELSE [result |-> ok(Project(found_project, found_project.secrets)),
            projects |-> ps,
            calls |-> <<"vaults.list", "items.list", "items.get">>]

\* get_launch_environment followed by the mapping of get_project
get_launch_environment(ps, environment) ==
  LET env_name == resolve_environment_name(environment)
      found == find_project(ps, env_name)
  IN  IF ~found_in(ps, env_name)
        THEN [result |-> err([message |-> "launch_environment_not_found"]),
              projects |-> ps,
              calls |-> <<"environments.list">>]
      ELSE [result |-> ok(Project(found, found.secrets)),
            projects |-> ps,
            calls |-> <<"environments.list", "environments.get">>]

\* create_project(environment) of each client
create_project(client, ps, environment) ==
  LET project_name == remote_name(client, environment)
      found_project == find_project(ps, project_name)
      new_project == created_project(ps, project_name)
  IN  CASE client = "onepassword" ->
             IF found_in(ps, project_name)
               THEN [result |-> err([message |-> "already_exists"]), projects |-> ps,
                     calls |-> <<"vaults.list", "items.list">>]
             ELSE [result |-> ok(Project(new_project, <<>>)),
                   projects |-> Append(ps, new_project),
                   calls |-> <<"vaults.list", "items.list", "items.create">>]
        [] client = "bitwarden" ->
             IF found_in(ps, project_name)
               THEN [result |-> ok(Project(found_project, <<>>)), projects |-> ps,
                     calls |-> <<"projects.list">>]
             ELSE [result |-> ok(Project(new_project, <<>>)),
                   projects |-> Append(ps, new_project),
                   calls |-> <<"projects.list", "projects.create">>]
        [] client = "cs_launch" ->
             IF ~found_in(ps, project_name)
               THEN [result |-> err([message |-> "launch_environment_not_found"]),
                     projects |-> ps, calls |-> <<"environments.list">>]
             ELSE [result |-> ok(Project(found_project, <<>>)), projects |-> ps,
                   calls |-> <<"environments.list">>]

\* the secrets a remote project can hold
RemoteSecrets == {<<>>, <<Secret("s1", "API_KEY", "v1")>>}

\* what the provider can hold for the base and the dev environment: each
\* project absent, empty or holding one secret
RemoteStates(client) ==
  LET Held == {<<>>} \cup {<<secrets>> : secrets \in RemoteSecrets}
      with(ps, environment, held) ==
        IF held = <<>> THEN ps
        ELSE Append(ps, RemoteProject("p" \o ToString(Len(ps) + 1),
                                      remote_name(client, environment), held[1]))
  IN  {with(with(<<>>, master, m), dev, d) : m \in Held, d \in Held}

\* the two chains get_project of the Bitwarden client starts together
Chains == {"project", "secrets"}

\* the secrets held for the project with this id
secrets_of(ps, id) ==
  IF \E i \in 1..Len(ps) : ps[i].id = id
    THEN ps[CHOOSE i \in 1..Len(ps) : ps[i].id = id].secrets
  ELSE <<>>

InitProject ==
  /\ pc = "ready"
  /\ cmd = ""
  /\ LibIdle
  /\ env_file = <<>>
  /\ vault = <<>>
  /\ storage_client \in Providers
  /\ apply = FALSE
  /\ rendered = <<>>
  /\ calls = <<>>
  /\ diff_result = <<>>
  /\ set_project_arg = <<>>
  /\ env_before = <<>>
  /\ vault_before = <<>>
  /\ client_env_keys = {}
  /\ next_uuid = 1
  /\ projects \in RemoteStates(storage_client)

ProjectFrame ==
  UNCHANGED <<env_file, vault, storage_client, diff_result, set_project_arg,
              env_before, vault_before, client_env_keys, next_uuid,
              state_file, dir_entries, files, fs_calls>>

\* push or pull, in preview or apply mode, reaches its get_project call
FetchBegin ==
  /\ pc = "ready"
  /\ \E c \in {"push", "pull"}, a \in BOOLEAN, environment \in {<<>>, master, dev} :
       /\ cmd' = c
       /\ apply' = a
       /\ input' = [environment |-> environment]
  /\ pc' = "fetch"
  /\ locals' = [c \in Chains |-> [pc |-> "list", project |-> <<>>, secrets |-> <<>>]]
  /\ UNCHANGED <<result, rendered, calls, projects>>
  /\ ProjectFrame

\* get_project of the 1Password client
OpGetProject ==
  /\ pc = "fetch"
  /\ storage_client = "onepassword"
  /\ LET r == get_op_project(projects, input.environment)
     IN  /\ result' = r.result
         /\ projects' = r.projects
         /\ calls' = r.calls
  /\ pc' = "done"
  /\ UNCHANGED <<cmd, apply, input, rendered, locals>>
  /\ ProjectFrame

\* get_project of the Contentstack Launch client
CsGetProject ==
  /\ pc = "fetch"
  /\ storage_client = "cs_launch"
  /\ LET r == get_launch_environment(projects, input.environment)
     IN  /\ result' = r.result
         /\ projects' = r.projects
         /\ calls' = r.calls
  /\ pc' = "done"
  /\ UNCHANGED <<cmd, apply, input, rendered, locals>>
  /\ ProjectFrame

\* where a chain of get_project continues once it has its project
after_project(c) == IF c = "secrets" THEN "secrets" ELSE "done"

\* get_bw_project: the answer to projects().list arrives
BwListProjects(c) ==
  /\ pc = "fetch"
  /\ storage_client = "bitwarden"
  /\ locals[c].pc = "list"
  /\ LET project_name == get_project_name(base_project_name, input.environment)
     IN  locals' =
           IF found_in(projects, project_name)
             THEN [locals EXCEPT ![c].pc = after_project(c),
                                 ![c].project = find_project(projects, project_name)]
           ELSE [locals EXCEPT ![c].pc = "create"]
  /\ calls' = Append(calls, "projects.list")
  /\ UNCHANGED <<pc, cmd, apply, input, result, rendered, projects>>
  /\ ProjectFrame

\* get_bw_project: projects().create for a chain that found no project
BwCreateProject(c) ==
  /\ pc = "fetch"
  /\ storage_client = "bitwarden"
  /\ locals[c].pc = "create"
  /\ LET project_name == get_project_name(base_project_name, input.environment)
         new_project == created_project(projects, project_name)
     IN  /\ projects' = Append(projects, new_project)
         /\ locals' = [locals EXCEPT ![c].pc = after_project(c), ![c].project = new_project]
  /\ calls' = Append(calls, "projects.create")
  /\ UNCHANGED <<pc, cmd, apply, input, result, rendered>>
  /\ ProjectFrame

\* get_bw_project_secrets: secrets().list, getByIds and the projectId filter
BwListSecrets ==
  /\ pc = "fetch"
  /\ storage_client = "bitwarden"
  /\ locals["secrets"].pc = "secrets"
  /\ locals' = [locals EXCEPT !["secrets"].pc = "done",
                              !["secrets"].secrets =
                                secrets_of(projects, locals["secrets"].project.id)]
  /\ calls' = Append(calls, "secrets.list")
  /\ UNCHANGED <<pc, cmd, apply, input, result, rendered, projects>>
  /\ ProjectFrame

\* a request of a chain fails
BwFail(c) ==
  /\ pc = "fetch"
  /\ storage_client = "bitwarden"
  /\ locals[c].pc \in {"list", "create", "secrets"}
  /\ locals' = [locals EXCEPT ![c].pc = "failed"]
  /\ UNCHANGED <<pc, cmd, apply, input, result, rendered, calls, projects>>
  /\ ProjectFrame

\* ResultAsync.combine([projects_res, secrets_res]) and the mapping to a Project
BwCombine ==
  /\ pc = "fetch"
  /\ storage_client = "bitwarden"
  /\ \A c \in Chains : locals[c].pc \in {"done", "failed"}
  /\ result' = IF \E c \in Chains : locals[c].pc = "failed"
                 THEN err([message |-> "bitwarden_request_failed"])
               ELSE ok(Project(locals["project"].project, locals["secrets"].secrets))
  /\ pc' = "done"
  /\ UNCHANGED <<cmd, apply, input, rendered, calls, projects, locals>>
  /\ ProjectFrame

\* init (for master) or env new (for a named environment) calls create_project
CreateProject ==
  /\ pc = "ready"
  /\ \E c \in {"init", "env_new"} :
       LET environment == IF c = "init" THEN master ELSE dev
           r == create_project(storage_client, projects, environment)
       IN  /\ cmd' = c
           /\ input' = [environment |-> environment]
           /\ result' = r.result
           /\ projects' = r.projects
           /\ calls' = r.calls
  /\ pc' = "done"
  /\ UNCHANGED <<apply, rendered, locals>>
  /\ ProjectFrame

NextProject ==
  \/ FetchBegin
  \/ OpGetProject
  \/ CsGetProject
  \/ \E c \in Chains : BwListProjects(c)
  \/ \E c \in Chains : BwCreateProject(c)
  \/ BwListSecrets
  \/ \E c \in Chains : BwFail(c)
  \/ BwCombine
  \/ CreateProject

SpecProject == InitProject /\ [][NextProject]_vars

----------------------------------------------------------------------------
(* C21, C30 *)

\* C21: push and pull never create a remote project, in preview or apply
\* mode, also when none exists yet for the environment: no step of their
\* get_project call changes the projects the provider holds.
C21_FetchCreatesNothing ==
  [][cmd' \in {"push", "pull"} => projects' = projects]_vars

\* C30: one get_project call on the Bitwarden client makes at most one
\* create request, and the secrets it returns are those of the project
\* whose id it returns.
C30_BitwardenSingleProject ==
  (storage_client = "bitwarden" /\ cmd \in {"push", "pull"}) =>
    /\ Cardinality({i \in 1..Len(calls) : calls[i] = "projects.create"}) <= 1
    /\ (pc = "done" /\ result.kind = "ok") =>
          result.value.secrets = secrets_of(projects, result.value.id)

----------------------------------------------------------------------------
(* env new (cmds/env.ts)                                                    *)

NewNames == {dev, <<" ">> \o dev \o <<" ">>, master, <<" ">> \o master \o <<" ">>,
             <<>>, <<"_", "_">>}

NewFailPoints == {"none", "create_storage_client", "write_env"}

\* the env files of the working directory, by name
NewFiles == {dot_env, EnvFileOf(dev), EnvFileOf(master)}

\* contents of the base `.env`
BaseContents == {m \in EnvMap : \A k \in DOMAIN m : m[k] = "v1"}

\* read_env(env_file_name) on a file of the working directory
read_env(fs, env_file_name) ==
  IF check_symlink_security(fs, env_file_name, env_file_name).kind = "err"
    THEN check_symlink_security(fs, env_file_name, env_file_name)
  ELSE read_file(fs, env_file_name, env_file_name)

\* write_env(items, env_file_name) on a file of the working directory
write_env(fs, items, env_file_name) ==
  IF check_symlink_security(fs, env_file_name, env_file_name).kind = "err"
    THEN [result |-> check_symlink_security(fs, env_file_name, env_file_name),
          files |-> fs]
  ELSE write_file(fs, env_file_name, env_file_name, items, mode_0600)

\* the reserved-name test of env new as it would be without the trim
is_master_untrimmed(environment) == environment = master

\* environment.trim() === "master"
is_master(environment) == trim(environment) = master

\* the action of `env new <environment>`: the message rendered, the files
\* and remote projects it leaves and the calls it made
env_new(environment, client, fs, ps, fail) ==
  LET validation_result == validate_environment_name(environment)
      validated_environment == validation_result.value
      new_env_file_name == EnvFileOf(validated_environment)
      env_map_res == read_env(fs, dot_env)
      env_map == env_map_res.value
      project_res == create_project(client, ps, validated_environment)
      keys == get_client_env_keys(client)
      filtered_env_map == [k \in DOMAIN env_map \ keys |-> ""]
      written == write_env(fs, filtered_env_map, new_env_file_name)
      Stop(message, c) == [rendered |-> message, files |-> fs, projects |-> ps, calls |-> c]
  IN  IF is_master(environment) THEN Stop("master_reserved", <<>>)
      ELSE IF validation_result.kind = "err"
        THEN Stop(validation_result.error.message, <<>>)
      ELSE IF env_map_res.kind = "err"
        THEN Stop(env_map_res.error.message, <<"read_env">>)
      ELSE IF DOMAIN env_map = {}
        THEN Stop("no_env_vars", <<"read_env">>)
      ELSE IF fail = "create_storage_client"
        THEN Stop("create_storage_client", <<"read_env", "create_storage_client">>)
      ELSE IF project_res.result.kind = "err"
        THEN Stop(project_res.result.error.message,
                  <<"read_env", "create_storage_client", "create_project">>)
      ELSE IF fail = "write_env" \/ written.result.kind = "err"
        THEN [rendered |-> "could_not_update", files |-> fs,
              projects |-> project_res.projects,
              calls |-> <<"read_env", "create_storage_client", "create_project",
                          "write_env">>]
      ELSE [rendered |-> "success", files |-> written.files,
            projects |-> project_res.projects,
            calls |-> <<"read_env", "create_storage_client", "create_project",
                        "write_env">>]

InitNew ==
  /\ pc = "ready"
  /\ cmd = ""
  /\ input = <<>>
  /\ result = <<>>
  /\ state_file = <<>>
  /\ dir_entries = <<>>
  /\ fs_calls = <<>>
  /\ locals = <<>>
  /\ env_file = <<>>
  /\ vault = <<>>
  /\ storage_client \in Providers
  /\ apply = FALSE
  /\ rendered = <<>>
  /\ calls = <<>>
  /\ diff_result = <<>>
  /\ set_project_arg = <<>>
  /\ env_before = <<>>
  /\ vault_before = <<>>
  /\ client_env_keys = {}
  /\ next_uuid = 1
  /\ projects \in RemoteStates(storage_client)
  /\ \E base \in {Missing} \cup {File(c, mode_0600) : c \in BaseContents},
        dev_file \in {Missing} \cup {File(c, mode_0600) : c \in EnvContents},
        master_file \in {Missing, File(<<>>, mode_0600)} :
       files = [name \in NewFiles |->
                  CASE name = dot_env -> base
                    [] name = EnvFileOf(dev) -> dev_file
                    [] OTHER -> master_file]

EnvNew ==
  /\ pc = "ready"
  /\ \E environment \in NewNames, fail \in NewFailPoints :
       LET r == env_new(environment, storage_client, files, projects, fail)
       IN  /\ input' = [environment |-> environment, fail |-> fail]
           /\ rendered' = r.rendered
           /\ files' = r.files
           /\ projects' = r.projects
           /\ calls' = r.calls
  /\ pc' = "done"
  /\ cmd' = "env_new"
  /\ UNCHANGED <<env_file, vault, storage_client, apply, diff_result, set_project_arg,
                 env_before, vault_before, client_env_keys, next_uuid,
                 result, state_file, dir_entries, fs_calls, locals>>

NextNew == EnvNew

SpecNew == InitNew /\ [][NextNew]_vars

----------------------------------------------------------------------------
(* C22, C29 *)

\* C22: env new with a name that trims to "master" renders the reserved-name
\* error and does nothing else: no env file is read or written, no storage
\* client call is made, no `.env.master` and no remote project is created.
C22_MasterReserved ==
  [][(cmd' = "env_new" /\ Trimmed(input'.environment) = master)
       => /\ rendered' = "master_reserved"
          /\ calls' = <<>>
          /\ files' = files
          /\ projects' = projects]_vars

\* env new " master " was refused in a directory whose `.env` holds variables
C22_Witness ==
  /\ cmd = "env_new"
  /\ input.environment = <<" ">> \o master \o <<" ">>
  /\ rendered = "master_reserved"
  /\ files[dot_env].kind = "file"
  /\ DOMAIN files[dot_env].content # {}
  /\ files[EnvFileOf(master)].kind = "missing"

\* C29: env new <name> leaves an existing `.env.<name>` with the contents it
\* had, for every provider.
C29_ExistingFileKept ==
  [][(/\ cmd' = "env_new"
      /\ validate_environment_name(input'.environment).kind = "ok"
      /\ files[EnvFileOf(Trimmed(input'.environment))].kind = "file")
       => files'[EnvFileOf(Trimmed(input'.environment))]
            = files[EnvFileOf(Trimmed(input'.environment))]]_vars

============================================================================
